---- MODULE Spec2Model ----
(***************************************************************************)
(* A model of aws-c-http's HTTP/2 stream manager                           *)
(* (source/http2_stream_manager.c) and of the HPACK dynamic table declared *)
(* in include/aws/http/private/hpack.h.                                    *)
(*                                                                         *)
(* Stream manager: user threads call acquire_stream, acquire and release;  *)
(* every operation follows the transaction pattern lock / mutate / build   *)
(* / unlock / execute.  The connection manager, the channel and the HTTP   *)
(* layer are the environment: they resolve connection acquisitions, run    *)
(* the make-request task and complete streams.                             *)
(***************************************************************************)
EXTENDS Integers, Sequences, FiniteSets, TLC

(* ------------------------------ bounds -------------------------------- *)
\* user threads calling into the manager
NumThreads == 2
\* pending_stream_acquisition records allocated over a run
MaxRecords == 2
\* records whose make-request task the channel is given
MaxTasks == 1
\* cap of the external reference count
MaxRefs == 2
\* UINT32_MAX is scaled to this many bits (TLC's integers are 32 bit signed)
WordBits == 1
\* largest max_size a dynamic table is given
MaxTableSize == 100
\* headers in one encoded block
MaxBlockHeaders == 1
\* headers encoded over a run
MaxHeaders == 2
\* update_max_table_size calls over a run
MaxUpdates == 2
\* entries a peer adds by hand over a run
MaxInjected == 2
\* octets in the cursor of one decode call
MaxSlice == 4
\* channels: one made by aws_http_client_connect, the others accepted by the server
MaxChannels == 2
\* width of the HPACK decoder's integer accumulator (64 in the program)
IntegerBits == 14

Threads == 1..NumThreads
Records == 1..MaxRecords
Connections == {"conn1", "conn2"}
NULL == "NULL"

\* source/http2_stream_manager.c:617, scaled to WordBits
UINT32_MAX == 2^WordBits - 1

AWS_H2SMST_READY == "AWS_H2SMST_READY"
AWS_H2SMST_SHUTTING_DOWN == "AWS_H2SMST_SHUTTING_DOWN"

AWS_ERROR_SUCCESS == "AWS_ERROR_SUCCESS"
AWS_ERROR_HTTP_CONNECTION_CLOSED == "AWS_ERROR_HTTP_CONNECTION_CLOSED"
\* what aws_last_error() returns after a failed make_request / activate
LastErrors == {"AWS_ERROR_INVALID_STATE"}

AWS_TASK_STATUS_RUN_READY == "AWS_TASK_STATUS_RUN_READY"
AWS_TASK_STATUS_CANCELED == "AWS_TASK_STATUS_CANCELED"
TaskStatuses == {AWS_TASK_STATUS_RUN_READY, AWS_TASK_STATUS_CANCELED}

VARIABLES
    \* struct aws_http2_stream_manager
    connection_manager,          \* "CM" or NULL
    ref_count,
    \* synced_data
    lock,                        \* set of threads holding the mutex (0 or 1)
    state,
    pending_acquisitions,        \* sequence of record ids, front first
    pending_acquisition_count,
    connections_acquiring,
    open_stream_count,
    assume_max_concurrent_stream,
    \* per user thread: position and its stack transaction
    pc,
    work,
    \* struct aws_h2_sm_pending_stream_acquisition, by record id
    rec,
    next_record,
    \* struct aws_h2_sm_connection.num_streams_open, by connection
    num_streams_open,
    \* environment: connection manager
    cm_state,                    \* "ready", "shutting_down", "done"
    cm_acquiring,                \* acquire_connection calls not yet resolved
    cm_failed,                   \* some acquisition was resolved with an error
    \* observations
    destroyed,                   \* the manager's memory was released
    shutdown_complete_calls,
    calls_made,                  \* kinds of callback / downstream call made
    calls_under_lock,            \* ... made by a thread holding the lock
    \* struct aws_hpack_dynamic_table
    table,                       \* stored headers, newest first
    table_size,
    max_size,
    table_op,                    \* observation: the last operation on the table
    \* the HPACK codec
    encoder,                     \* struct aws_hpack_encoder
    decoder,                     \* struct aws_hpack_decoder
    wire,                        \* octets sent and not yet decoded
    sent,                        \* the header list of the block in flight
    decoded,                     \* results decoded since that block was sent
    fields_in_block,             \* header fields decoded in the current block
    injected,                    \* entries the peer added by hand
    decode_error,                \* what the last decode call returned
    decode_failed,               \* some decode call has failed
    updates_called,              \* update_max_table_size values since the last block
    last_block,                  \* the updates called before / emitted in the last block
    used,                        \* headers encoded and updates called so far
    \* connection.c
    http_bootstrap,              \* struct aws_http_client_bootstrap
    http_server,                 \* struct aws_http_server
    channels,                    \* per channel, its state and shutdown error code
    http_connection,             \* per channel, the aws_http_connection in it
    user_calls,                  \* per channel, the user's callbacks invoked so far
    api_return,                  \* what the last API call returned
    \* proxy_strategy.c
    strategies,                  \* the sub-strategies of a tunneling chain, in order
    current_strategy_transform_index, \* the chain's index (0-based, as in the code)
    connect_message,             \* the CONNECT request of the current transform call
    callbacks,                   \* per transform call, the callbacks invoked in order
    connect_request              \* is a forwarded request awaiting its status; the last status

smvars == <<connection_manager, ref_count, lock, state, pending_acquisitions,
            pending_acquisition_count, connections_acquiring, open_stream_count,
            assume_max_concurrent_stream, pc, work, rec, next_record,
            num_streams_open, cm_state, cm_acquiring, cm_failed, destroyed,
            shutdown_complete_calls, calls_made, calls_under_lock>>
tablevars == <<table, table_size, max_size, table_op>>
codecvars == <<encoder, decoder, wire, sent, decoded, fields_in_block, injected,
               decode_error, decode_failed, updates_called, last_block, used>>
connvars == <<http_bootstrap, http_server, channels, http_connection, user_calls,
              api_return>>
proxyvars == <<strategies, current_strategy_transform_index, connect_message,
               callbacks, connect_request>>
hpackvars == <<tablevars, codecvars>>
vars == <<smvars, hpackvars, connvars, proxyvars>>

(* ----------------------- records and transactions --------------------- *)

\* a slot that holds no record yet
NoRecord ==
    [st |-> "unused", sm_connection |-> NULL, callback |-> FALSE,
     on_complete |-> FALSE,
     acquired_calls |-> 0, acquired_stream |-> FALSE,
     acquired_error |-> AWS_ERROR_SUCCESS,
     complete_calls |-> 0, destroy_calls |-> 0,
     events |-> <<>>]

\* calloc + copy of the options: no connection chosen
s_new_pending_stream_acquisition(callback, on_complete) ==
    [NoRecord EXCEPT !.st = "pending", !.callback = callback,
                     !.on_complete = on_complete]

\* AWS_ZERO_STRUCT + empty list
s_aws_stream_management_transaction_init ==
    [new_connections |-> 0, connection_to_release |-> NULL,
     pending_make_requests |-> <<>>, should_destroy_manager |-> FALSE, i |-> 0]

s_aws_http2_stream_manager_should_destroy_synced(st, acquiring, open) ==
    IF st # AWS_H2SMST_SHUTTING_DOWN THEN FALSE
    ELSE IF acquiring > 0 \/ open > 0 THEN FALSE
    ELSE TRUE

\* Step 1 of build_transaction: pop from the back until a record without a
\* connection is met (it is pushed back and the loop ends).
RECURSIVE s_build_step1(_, _, _, _)
s_build_step1(r, pend, ready, count) ==
    IF pend = <<>> THEN [pending |-> pend, ready |-> ready, count |-> count]
    ELSE LET node == pend[Len(pend)] IN
         IF r[node].sm_connection = NULL
         THEN [pending |-> pend, ready |-> ready, count |-> count]
         ELSE s_build_step1(r, SubSeq(pend, 1, Len(pend) - 1),
                            Append(ready, node), count - 1)

\* faulty variant: the subtraction of Step 2 is taken the other way round
s_aws_http2_stream_manager_build_transaction_synced_reversed(st, r, pend, count, acquiring, open, amax, w) ==
    IF st = AWS_H2SMST_READY THEN
        LET d == s_build_step1(r, pend, w.pending_make_requests, count) IN
        [returns |-> TRUE, pending |-> d.pending, count |-> d.count,
         work |-> [w EXCEPT
              !.pending_make_requests = d.ready,
              !.new_connections =
                  IF d.count # 0 THEN acquiring - (d.count \div amax + 1) ELSE @]]
    ELSE
        [returns |-> pend = <<>>, pending |-> pend, count |-> 0,
         work |-> [w EXCEPT !.should_destroy_manager =
              s_aws_http2_stream_manager_should_destroy_synced(st, acquiring, open)]]

\* build_transaction under the lock, as a function of the synced data.
\* returns: true when the function returns.  In the shutting-down branch the
\* loop `while (!aws_linked_list_empty(pending_acquisitions)) {}` has an
\* empty body: it is left only when the list is empty on entry.
s_aws_http2_stream_manager_build_transaction_synced(st, r, pend, count, acquiring, open, amax, w) ==
    IF st = AWS_H2SMST_READY THEN
        LET d == s_build_step1(r, pend, w.pending_make_requests, count) IN
        [returns |-> TRUE, pending |-> d.pending, count |-> d.count,
         work |-> [w EXCEPT
              !.pending_make_requests = d.ready,
              !.new_connections =
                  IF d.count # 0 THEN (d.count \div amax + 1) - acquiring ELSE @]]
    ELSE
        [returns |-> pend = <<>>, pending |-> pend, count |-> 0,
         work |-> [w EXCEPT !.should_destroy_manager =
              s_aws_http2_stream_manager_should_destroy_synced(st, acquiring, open)]]

(* ------------------------------- the lock ----------------------------- *)

s_lock_synced_data(t) ==
    /\ lock = {}
    /\ lock' = {t}

\* faulty variant: the critical section is left without releasing the mutex
s_unlock_synced_data_kept(t) ==
    lock' = lock

s_unlock_synced_data(t) ==
    lock' = lock \ {t}

\* a user callback or a downstream call made by thread t (0: an event-loop
\* thread, which never takes the manager's lock)
Call(kinds, t) ==
    /\ calls_made' = calls_made \cup kinds
    /\ calls_under_lock' = IF t \in lock THEN calls_under_lock \cup kinds
                           ELSE calls_under_lock

NoCall == UNCHANGED <<calls_made, calls_under_lock>>

(* ------------------------------ user calls ---------------------------- *)

\* records are left for every call that is on its way to allocate one
RecordsLeft ==
    next_record + Cardinality({u \in Threads :
        pc[u] \in {"acquire_stream_lock", "acquire_stream_synced"}}) <= MaxRecords

synced == <<state, pending_acquisitions, pending_acquisition_count,
            connections_acquiring, open_stream_count, assume_max_concurrent_stream>>
cmvars == <<connection_manager, cm_state, cm_acquiring, cm_failed>>
recvars == <<rec, next_record, num_streams_open>>
endvars == <<destroyed, shutdown_complete_calls>>

aws_http2_stream_manager_acquire(t) ==
    /\ pc[t] = "idle"
    /\ ref_count > 0
    /\ ref_count < MaxRefs
    /\ ref_count' = ref_count + 1
    /\ NoCall
    /\ UNCHANGED <<lock, synced, pc, work, cmvars, recvars, endvars, hpackvars, connvars, proxyvars>>

\* faulty variant: the zero-reference handler is entered on every release
aws_http2_stream_manager_release_always_zero(t) ==
    /\ pc[t] = "idle"
    /\ ref_count > 0
    /\ (ref_count = 1 => \A u \in Threads : pc[u] = "idle")
    /\ ref_count' = ref_count - 1
    /\ pc' = [pc EXCEPT ![t] = "zero_ref_lock"]
    /\ work' = [work EXCEPT ![t] = s_aws_stream_management_transaction_init]
    /\ NoCall
    /\ UNCHANGED <<lock, synced, cmvars, recvars, endvars, hpackvars, connvars, proxyvars>>

\* aws_ref_count_release; the release that takes the count to zero runs
\* s_stream_manager_on_zero_external_ref on the releasing thread.  A thread
\* inside acquire_stream owns a reference, so the last reference goes only
\* when no other call is in progress.
aws_http2_stream_manager_release(t) ==
    /\ pc[t] = "idle"
    /\ ref_count > 0
    /\ (ref_count = 1 => \A u \in Threads : pc[u] = "idle")
    /\ ref_count' = ref_count - 1
    /\ IF ref_count' = 0
       THEN /\ pc' = [pc EXCEPT ![t] = "zero_ref_lock"]
            /\ work' = [work EXCEPT ![t] = s_aws_stream_management_transaction_init]
       ELSE UNCHANGED <<pc, work>>
    /\ NoCall
    /\ UNCHANGED <<lock, synced, cmvars, recvars, endvars, hpackvars, connvars, proxyvars>>

\* entry of acquire_stream: the transaction is initialised, the thread goes
\* for the lock
aws_http2_stream_manager_acquire_stream(t) ==
    /\ pc[t] = "idle"
    /\ ref_count > 0
    /\ RecordsLeft
    /\ pc' = [pc EXCEPT ![t] = "acquire_stream_lock"]
    /\ work' = [work EXCEPT ![t] = s_aws_stream_management_transaction_init]
    /\ NoCall
    /\ UNCHANGED <<ref_count, lock, synced, cmvars, recvars, endvars, hpackvars, connvars, proxyvars>>

\* BEGIN CRITICAL SECTION of either operation
LockStep(t) ==
    /\ pc[t] \in {"acquire_stream_lock", "zero_ref_lock"}
    /\ s_lock_synced_data(t)
    /\ pc' = [pc EXCEPT ![t] = IF pc[t] = "acquire_stream_lock"
                               THEN "acquire_stream_synced" ELSE "zero_ref_synced"]
    /\ NoCall
    /\ UNCHANGED <<ref_count, synced, work, cmvars, recvars, endvars, hpackvars, connvars, proxyvars>>

\* the records of list l take status s
Marked(r, l, s) ==
    [x \in Records |->
        IF \E k \in 1..Len(l) : l[k] = x THEN [r[x] EXCEPT !.st = s] ELSE r[x]]

\* the result b of build_transaction is stored; a build that never returns
\* leaves the thread in the loop, holding the lock
BuildApplied(t, b, r) ==
    IF b.returns
    THEN /\ pending_acquisitions' = b.pending
         /\ pending_acquisition_count' = b.count
         /\ work' = [work EXCEPT ![t] = b.work]
         /\ rec' = Marked(r, b.work.pending_make_requests, "ready")
         /\ pc' = [pc EXCEPT ![t] = "unlock"]
    ELSE /\ pending_acquisitions' = b.pending
         /\ UNCHANGED <<pending_acquisition_count, work>>
         /\ rec' = r
         /\ pc' = [pc EXCEPT ![t] = "fail_all_loop"]

\* faulty variant: the record is linked without counting it
acquire_stream_synced_not_counted(t, callback, on_complete) ==
    /\ pc[t] = "acquire_stream_synced"
    /\ LET id == next_record
           r == [rec EXCEPT ![id] = s_new_pending_stream_acquisition(callback, on_complete)]
           b == s_aws_http2_stream_manager_build_transaction_synced(
                    state, r, Append(pending_acquisitions, id),
                    pending_acquisition_count, connections_acquiring,
                    open_stream_count, assume_max_concurrent_stream, work[t])
       IN  BuildApplied(t, b, r)
    /\ next_record' = next_record + 1
    /\ NoCall
    /\ UNCHANGED <<ref_count, lock, state, connections_acquiring, open_stream_count,
                   assume_max_concurrent_stream, num_streams_open, cmvars, endvars,
                   hpackvars, connvars, proxyvars>>

\* the critical section of acquire_stream: new record, push_back, count++,
\* build_transaction
acquire_stream_synced(t, callback, on_complete) ==
    /\ pc[t] = "acquire_stream_synced"
    /\ LET id == next_record
           r == [rec EXCEPT ![id] = s_new_pending_stream_acquisition(callback, on_complete)]
           b == s_aws_http2_stream_manager_build_transaction_synced(
                    state, r, Append(pending_acquisitions, id),
                    pending_acquisition_count + 1, connections_acquiring,
                    open_stream_count, assume_max_concurrent_stream, work[t])
       IN  BuildApplied(t, b, r)
    /\ next_record' = next_record + 1
    /\ NoCall
    /\ UNCHANGED <<ref_count, lock, state, connections_acquiring, open_stream_count,
                   assume_max_concurrent_stream, num_streams_open, cmvars, endvars,
                   hpackvars, connvars, proxyvars>>

\* faulty variant: the state is left as it was
s_stream_manager_on_zero_external_ref_keeps_state(t) ==
    /\ pc[t] = "zero_ref_synced"
    /\ LET b == s_aws_http2_stream_manager_build_transaction_synced(
                    state, rec, pending_acquisitions,
                    pending_acquisition_count, connections_acquiring,
                    open_stream_count, assume_max_concurrent_stream, work[t])
       IN  BuildApplied(t, b, rec)
    /\ NoCall
    /\ UNCHANGED <<ref_count, lock, state, connections_acquiring, open_stream_count,
                   assume_max_concurrent_stream, next_record, num_streams_open,
                   cmvars, endvars, hpackvars, connvars, proxyvars>>

\* the critical section of s_stream_manager_on_zero_external_ref
s_stream_manager_on_zero_external_ref(t) ==
    /\ pc[t] = "zero_ref_synced"
    /\ state' = AWS_H2SMST_SHUTTING_DOWN
    /\ LET b == s_aws_http2_stream_manager_build_transaction_synced(
                    AWS_H2SMST_SHUTTING_DOWN, rec, pending_acquisitions,
                    pending_acquisition_count, connections_acquiring,
                    open_stream_count, assume_max_concurrent_stream, work[t])
       IN  BuildApplied(t, b, rec)
    /\ NoCall
    /\ UNCHANGED <<ref_count, lock, connections_acquiring, open_stream_count,
                   assume_max_concurrent_stream, next_record, num_streams_open,
                   cmvars, endvars, hpackvars, connvars, proxyvars>>

\* faulty variant: the transaction is executed inside the critical section
UnlockStep_executes_locked(t) ==
    /\ pc[t] = "unlock"
    /\ pc' = [pc EXCEPT ![t] = "execute"]
    /\ NoCall
    /\ UNCHANGED <<ref_count, lock, synced, work, cmvars, recvars, endvars, hpackvars, connvars, proxyvars>>

\* END CRITICAL SECTION
UnlockStep(t) ==
    /\ pc[t] = "unlock"
    /\ s_unlock_synced_data(t)
    /\ pc' = [pc EXCEPT ![t] = "execute"]
    /\ NoCall
    /\ UNCHANGED <<ref_count, synced, work, cmvars, recvars, endvars, hpackvars, connvars, proxyvars>>

(* ------------------------- execute_transaction ------------------------ *)

\* invokes the user's shutdown-complete callback and frees the manager
s_stream_manager_destroy_final ==
    /\ shutdown_complete_calls' = shutdown_complete_calls + 1
    /\ destroyed' = TRUE

\* the connection manager has finished its shutdown: the reference is
\* cleared and the manager destroyed
s_stream_manager_on_cm_shutdown_complete ==
    /\ connection_manager' = NULL
    /\ cm_state' = "done"
    /\ s_stream_manager_destroy_final

\* Steps 2 and 3: release the connection of the transaction, schedule the
\* make-request task of every record of pending_make_requests
execute_release_and_schedule(t) ==
    /\ pc[t] = "execute"
    /\ Call((IF work[t].connection_to_release # NULL
             THEN {"release_connection"} ELSE {})
            \cup (IF work[t].pending_make_requests # <<>>
                  THEN {"schedule_task"} ELSE {}), t)
    /\ rec' = Marked(rec, work[t].pending_make_requests, "scheduled")
    /\ work' = [work EXCEPT ![t].pending_make_requests = <<>>, ![t].i = 0]
    /\ pc' = [pc EXCEPT ![t] = "execute_acquire"]
    /\ UNCHANGED <<ref_count, lock, synced, next_record, num_streams_open,
                   cmvars, endvars, hpackvars, connvars, proxyvars>>

\* The connection-acquired callback: the body is empty, the connection and
\* the error code are dropped.
s_sm_on_connection_acquired(connection, error_code) ==
    UNCHANGED <<synced, recvars, work>>

\* Step 4, one iteration: acquire_connection.  The connection manager either
\* keeps the request for later or fails it at once, calling back inside the
\* call.
execute_acquire_connection(t, immediate_failure) ==
    /\ pc[t] = "execute_acquire"
    /\ work[t].i < work[t].new_connections
    /\ Call({"acquire_connection"}, t)
    /\ IF immediate_failure
       THEN /\ s_sm_on_connection_acquired(NULL, AWS_ERROR_HTTP_CONNECTION_CLOSED)
            /\ cm_failed' = TRUE
            /\ UNCHANGED cm_acquiring
       ELSE /\ cm_acquiring' = cm_acquiring + 1
            /\ UNCHANGED <<cm_failed, synced, recvars>>
    /\ work' = [work EXCEPT ![t].i = @ + 1]
    /\ UNCHANGED <<ref_count, lock, pc, connection_manager, cm_state, endvars,
                   hpackvars, connvars, proxyvars>>

\* Step 5: s_stream_manager_start_destroy releases the connection manager,
\* which may finish its shutdown inside the call when nothing is outstanding
execute_destroy(t, immediate_shutdown) ==
    /\ pc[t] = "execute_acquire"
    /\ work[t].i >= work[t].new_connections
    /\ pc' = [pc EXCEPT ![t] = "idle"]
    /\ IF work[t].should_destroy_manager
       THEN IF immediate_shutdown /\ cm_acquiring = 0
            THEN /\ Call({"connection_manager_release",
                          "shutdown_complete_callback"}, t)
                 /\ s_stream_manager_on_cm_shutdown_complete
            ELSE /\ Call({"connection_manager_release"}, t)
                 /\ cm_state' = "shutting_down"
                 /\ UNCHANGED <<connection_manager, endvars>>
       ELSE /\ NoCall
            /\ UNCHANGED <<connection_manager, cm_state, endvars>>
    /\ UNCHANGED <<ref_count, lock, synced, work, recvars, cm_acquiring, cm_failed,
                   hpackvars, connvars, proxyvars>>

(* ---------------------- connection manager callbacks ------------------ *)

\* an outstanding acquire_connection resolves on an event-loop thread
ConnectionAcquired(connection, error_code) ==
    /\ cm_acquiring > 0
    /\ cm_acquiring' = cm_acquiring - 1
    /\ cm_failed' = (cm_failed \/ error_code # AWS_ERROR_SUCCESS)
    /\ s_sm_on_connection_acquired(connection, error_code)
    /\ NoCall
    /\ UNCHANGED <<ref_count, lock, pc, connection_manager, cm_state, endvars,
                   hpackvars, connvars, proxyvars>>

\* the released connection manager finishes its shutdown on an event-loop
\* thread, once its own pending acquisitions are resolved
ConnectionManagerShutdownComplete ==
    /\ cm_state = "shutting_down"
    /\ cm_acquiring = 0
    /\ s_stream_manager_on_cm_shutdown_complete
    /\ Call({"shutdown_complete_callback"}, 0)
    /\ UNCHANGED <<ref_count, lock, synced, pc, work, recvars, cm_acquiring,
                   cm_failed, hpackvars, connvars, proxyvars>>

(* --------------------- channel and HTTP callbacks --------------------- *)

\* s_pending_stream_acquisition_destroy: the connection and the request are
\* released, the record freed
s_pending_stream_acquisition_destroy(p) ==
    [p EXCEPT !.st = "destroyed", !.destroy_calls = @ + 1]

\* the user's on_acquired callback, when one was given
acquired_callback(p, stream, error_code) ==
    IF p.callback
    THEN [p EXCEPT !.acquired_calls = @ + 1, !.acquired_stream = stream,
                   !.acquired_error = error_code,
                   !.events = Append(@, "on_acquired")]
    ELSE p

\* the user's on_complete callback, when one was given
complete_callback(p) ==
    IF p.on_complete
    THEN [p EXCEPT !.complete_calls = @ + 1, !.events = Append(@, "on_complete")]
    ELSE p

\* aws_http_stream_activate is called on the stream of the record
stream_activate(p) == [p EXCEPT !.events = Append(@, "activate")]

\* A record whose connection was chosen has its make-request task on the
\* connection's channel (the precondition asserted at execute_transaction's
\* Step 3).  The channel is the one that holds such records.
TaskScheduled(connection, callback, on_complete) ==
    /\ state = AWS_H2SMST_READY
    /\ ref_count > 0
    /\ RecordsLeft
    /\ Cardinality({r \in Records : rec[r].sm_connection # NULL}) < MaxTasks
    /\ rec' = [rec EXCEPT ![next_record] =
                  [s_new_pending_stream_acquisition(callback, on_complete)
                      EXCEPT !.st = "scheduled", !.sm_connection = connection]]
    /\ next_record' = next_record + 1
    /\ NoCall
    /\ UNCHANGED <<ref_count, lock, synced, pc, work, num_streams_open, cmvars,
                   endvars, hpackvars, connvars, proxyvars>>

\* faulty variant: a failed make_request is reported with the error code the task
\* started with
s_make_request_task_error_not_set(p, status, made, activated, last_error) ==
    IF status # AWS_TASK_STATUS_RUN_READY
    THEN [rec |-> s_pending_stream_acquisition_destroy(
                      acquired_callback(p, FALSE, AWS_ERROR_HTTP_CONNECTION_CLOSED)),
          opened |-> 0, calls |-> IF p.callback THEN {"on_acquired"} ELSE {}]
    ELSE IF ~made
    THEN [rec |-> s_pending_stream_acquisition_destroy(
                      acquired_callback(p, FALSE, AWS_ERROR_SUCCESS)),
          opened |-> 0, calls |-> IF p.callback THEN {"on_acquired"} ELSE {}]
    ELSE LET q == stream_activate(acquired_callback(p, TRUE, AWS_ERROR_SUCCESS)) IN
         IF ~activated /\ q.on_complete
         THEN [rec |-> s_pending_stream_acquisition_destroy(complete_callback(q)),
               opened |-> 0,
               calls |-> (IF p.callback THEN {"on_acquired"} ELSE {})
                         \cup {"on_complete"}]
         ELSE [rec |-> [q EXCEPT !.st = IF activated THEN "open" ELSE "not_activated"],
               opened |-> 1,
               calls |-> IF p.callback THEN {"on_acquired"} ELSE {}]

\* faulty variant: the stream is activated before the user is given it
s_make_request_task_activates_first(p, status, made, activated, last_error) ==
    IF status # AWS_TASK_STATUS_RUN_READY
    THEN [rec |-> s_pending_stream_acquisition_destroy(
                      acquired_callback(p, FALSE, AWS_ERROR_HTTP_CONNECTION_CLOSED)),
          opened |-> 0, calls |-> IF p.callback THEN {"on_acquired"} ELSE {}]
    ELSE IF ~made
    THEN [rec |-> s_pending_stream_acquisition_destroy(
                      acquired_callback(p, FALSE, last_error)),
          opened |-> 0, calls |-> IF p.callback THEN {"on_acquired"} ELSE {}]
    ELSE LET q == acquired_callback(stream_activate(p), TRUE, AWS_ERROR_SUCCESS) IN
         IF ~activated /\ q.on_complete
         THEN [rec |-> s_pending_stream_acquisition_destroy(complete_callback(q)),
               opened |-> 0,
               calls |-> (IF p.callback THEN {"on_acquired"} ELSE {})
                         \cup {"on_complete"}]
         ELSE [rec |-> [q EXCEPT !.st = IF activated THEN "open" ELSE "not_activated"],
               opened |-> 1,
               calls |-> IF p.callback THEN {"on_acquired"} ELSE {}]

\* The make-request task, run by the channel with `status`; `made` and
\* `activated` are the outcomes of aws_http_connection_make_request and of
\* aws_http_stream_activate, last_error what aws_last_error() gives after a
\* failure.  The result is the record and the change of num_streams_open.
s_make_request_task(p, status, made, activated, last_error) ==
    IF status # AWS_TASK_STATUS_RUN_READY
    THEN [rec |-> s_pending_stream_acquisition_destroy(
                      acquired_callback(p, FALSE, AWS_ERROR_HTTP_CONNECTION_CLOSED)),
          opened |-> 0, calls |-> IF p.callback THEN {"on_acquired"} ELSE {}]
    ELSE IF ~made
    THEN [rec |-> s_pending_stream_acquisition_destroy(
                      acquired_callback(p, FALSE, last_error)),
          opened |-> 0, calls |-> IF p.callback THEN {"on_acquired"} ELSE {}]
    ELSE LET q == stream_activate(acquired_callback(p, TRUE, AWS_ERROR_SUCCESS)) IN
         IF ~activated /\ q.on_complete
         THEN [rec |-> s_pending_stream_acquisition_destroy(complete_callback(q)),
               opened |-> 0,
               calls |-> (IF p.callback THEN {"on_acquired"} ELSE {})
                         \cup {"on_complete"}]
         ELSE [rec |-> [q EXCEPT !.st = IF activated THEN "open" ELSE "not_activated"],
               opened |-> 1,
               calls |-> IF p.callback THEN {"on_acquired"} ELSE {}]

MakeRequestTask(r, status, made, activated, last_error) ==
    /\ rec[r].st = "scheduled"
    /\ LET res == s_make_request_task(rec[r], status, made, activated, last_error) IN
        /\ rec' = [rec EXCEPT ![r] = res.rec]
        /\ num_streams_open' =
              [num_streams_open EXCEPT ![rec[r].sm_connection] = @ + res.opened]
        /\ Call(res.calls, 0)
    /\ UNCHANGED <<ref_count, lock, synced, pc, work, next_record, cmvars,
                   endvars, hpackvars, connvars, proxyvars>>

\* HTTP completes an activated stream: the connection's count goes down, the
\* user's on_complete runs, the record is destroyed.  Nothing of the
\* manager's synced data is touched.
s_on_stream_complete(r) ==
    /\ rec[r].st = "open"
    /\ num_streams_open' =
          [num_streams_open EXCEPT ![rec[r].sm_connection] = @ - 1]
    /\ rec' = [rec EXCEPT ![r] =
                  s_pending_stream_acquisition_destroy(complete_callback(rec[r]))]
    /\ Call(IF rec[r].on_complete THEN {"on_complete"} ELSE {}, 0)
    /\ UNCHANGED <<ref_count, lock, synced, pc, work, next_record, cmvars,
                   endvars, hpackvars, connvars, proxyvars>>

(* ------------------------------ the manager --------------------------- *)

\* the state aws_http2_stream_manager_new returns
SMInit ==
    /\ connection_manager = "CM"
    /\ ref_count = 1
    /\ lock = {}
    /\ state = AWS_H2SMST_READY
    /\ pending_acquisitions = <<>>
    /\ pending_acquisition_count = 0
    /\ connections_acquiring = 0
    /\ open_stream_count = 0
    /\ assume_max_concurrent_stream = UINT32_MAX
    /\ pc = [t \in Threads |-> "idle"]
    /\ work = [t \in Threads |-> s_aws_stream_management_transaction_init]
    /\ rec = [r \in Records |-> NoRecord]
    /\ next_record = 1
    /\ num_streams_open = [c \in Connections |-> 0]
    /\ cm_state = "ready"
    /\ cm_acquiring = 0
    /\ cm_failed = FALSE
    /\ destroyed = FALSE
    /\ shutdown_complete_calls = 0
    /\ calls_made = {}
    /\ calls_under_lock = {}

NoError == "none"
NoBlock == [called |-> <<>>, emitted |-> <<>>]

CodecIdle ==
    /\ encoder = NULL
    /\ decoder = NULL
    /\ wire = <<>>
    /\ sent = <<>>
    /\ decoded = <<>>
    /\ fields_in_block = 0
    /\ injected = 0
    /\ decode_error = NoError
    /\ decode_failed = FALSE
    /\ updates_called = <<>>
    /\ last_block = NoBlock
    /\ used = [headers |-> 0, updates |-> 0]


NoTableOp == [op |-> "none", arg |-> 0, evicted |-> 0]

TableIdle ==
    /\ table = <<>>
    /\ table_size = 0
    /\ max_size = 0
    /\ table_op = NoTableOp

\* channel 1 is the client's, the others are accepted by the server
Channels == 1..MaxChannels
ClientChannel == 1
ServerChannels == Channels \ {ClientChannel}

\* no struct aws_http_client_bootstrap allocated
NoBootstrap ==
    [allocated |-> FALSE, is_using_tls |-> FALSE, on_setup |-> NULL,
     on_shutdown |-> NULL, connection |-> NULL]

\* a channel that does not exist
NoChannel == [state |-> "none", error_code |-> AWS_ERROR_SUCCESS]

\* no connection object; server_data is <<>> for a NULL pointer
NoConnection == [exists |-> FALSE, server_data |-> <<>>, refcount |-> 0]

NoReturn == [fn |-> "none", connection |-> 0, result |-> "none", error |-> AWS_ERROR_SUCCESS]

ConnIdle ==
    /\ http_bootstrap = NoBootstrap
    /\ http_server = [is_using_tls |-> FALSE, channel_to_connection_map |-> {}]
    /\ channels = [ch \in Channels |-> NoChannel]
    /\ http_connection = [ch \in Channels |-> NoConnection]
    /\ user_calls = [ch \in Channels |-> <<>>]
    /\ api_return = NoReturn

\* no proxy strategy has been created
ProxyIdle ==
    /\ strategies = <<>>
    /\ current_strategy_transform_index = 0
    /\ connect_message = <<>>
    /\ callbacks = <<>>
    /\ connect_request = [pending |-> FALSE, status_code |-> 0]

Init == SMInit /\ TableIdle /\ CodecIdle /\ ConnIdle /\ ProxyIdle

\* the steps a user thread takes once it is inside a call
ThreadStep(t) ==
    \/ LockStep(t)
    \/ acquire_stream_synced(t, TRUE, TRUE)
    \/ s_stream_manager_on_zero_external_ref(t)
    \/ UnlockStep(t)
    \/ execute_release_and_schedule(t)
    \/ \E immediate_failure \in BOOLEAN :
           execute_acquire_connection(t, immediate_failure)
    \/ \E immediate_shutdown \in BOOLEAN : execute_destroy(t, immediate_shutdown)

\* the calls users make
UserCall(t) ==
    \/ aws_http2_stream_manager_acquire(t)
    \/ aws_http2_stream_manager_release(t)
    \/ aws_http2_stream_manager_acquire_stream(t)

\* what the connection manager, the channel and HTTP do
Callbacks ==
    \/ \E error_code \in {AWS_ERROR_SUCCESS, AWS_ERROR_HTTP_CONNECTION_CLOSED} :
           ConnectionAcquired(IF error_code = AWS_ERROR_SUCCESS THEN "conn1" ELSE NULL,
                              error_code)
    \/ ConnectionManagerShutdownComplete
    \/ \E r \in Records, status \in TaskStatuses, made, activated \in BOOLEAN,
          last_error \in LastErrors :
           MakeRequestTask(r, status, made, activated, last_error)
    \/ \E r \in Records : s_on_stream_complete(r)

Dispatch ==
    \E connection \in Connections, callback, on_complete \in BOOLEAN :
        TaskScheduled(connection, callback, on_complete)

Next ==
    \/ \E t \in Threads : UserCall(t)
    \/ \E t \in Threads : ThreadStep(t)
    \/ Callbacks
    \/ Dispatch

Spec == Init /\ [][Next]_vars

\* Threads inside a call keep running and the environment delivers its
\* callbacks; users are free to make no further call.
FairSpec ==
    /\ Spec
    /\ \A t \in Threads : WF_vars(ThreadStep(t))
    /\ WF_vars(Callbacks)

(* ------------------------- HPACK dynamic table ------------------------ *)

\* octets every entry costs on top of its name and value [RFC 7541, 4.1]
HeaderOverhead == 32

HeaderNames == {"a", "bc"}
HeaderValues == {"", "x", "yz"}
Headers == [name : HeaderNames, value : HeaderValues]

aws_hpack_get_header_size(header) ==
    Len(header.name) + Len(header.value) + HeaderOverhead

\* entries are dropped from the old end while the size is above the limit
RECURSIVE s_dynamic_table_shrink(_, _, _)
s_dynamic_table_shrink(tb, size, limit) ==
    IF size > limit /\ tb # <<>>
    THEN s_dynamic_table_shrink(SubSeq(tb, 1, Len(tb) - 1),
                                size - aws_hpack_get_header_size(tb[Len(tb)]),
                                limit)
    ELSE [table |-> tb, size |-> size]

\* faulty variant: the new header is stored without making room for it
aws_hpack_dynamic_table_insert_header_no_eviction(tb, size, max, header) ==
    IF aws_hpack_get_header_size(header) > max
    THEN s_dynamic_table_shrink(tb, size, 0)
    ELSE [table |-> <<header>> \o tb,
          size |-> size + aws_hpack_get_header_size(header)]

\* faulty variant: a header larger than max_size is dropped and the table kept
aws_hpack_dynamic_table_insert_header_keeps_table(tb, size, max, header) ==
    IF aws_hpack_get_header_size(header) > max
    THEN [table |-> tb, size |-> size]
    ELSE LET s == s_dynamic_table_shrink(tb, size,
                      max - aws_hpack_get_header_size(header))
         IN  [table |-> <<header>> \o s.table,
              size |-> s.size + aws_hpack_get_header_size(header)]

\* faulty variant: the new header is stored behind the entries that stay
aws_hpack_dynamic_table_insert_header_appends(tb, size, max, header) ==
    IF aws_hpack_get_header_size(header) > max
    THEN s_dynamic_table_shrink(tb, size, 0)
    ELSE LET s == s_dynamic_table_shrink(tb, size,
                      max - aws_hpack_get_header_size(header))
         IN  [table |-> s.table \o <<header>>,
              size |-> s.size + aws_hpack_get_header_size(header)]

\* a header larger than max_size empties the table; any other header is
\* stored as the newest entry after the oldest entries made room for it
aws_hpack_dynamic_table_insert_header(tb, size, max, header) ==
    IF aws_hpack_get_header_size(header) > max
    THEN s_dynamic_table_shrink(tb, size, 0)
    ELSE LET s == s_dynamic_table_shrink(tb, size,
                      max - aws_hpack_get_header_size(header))
         IN  [table |-> <<header>> \o s.table,
              size |-> s.size + aws_hpack_get_header_size(header)]

\* faulty variant: every entry is dropped, whatever fits
aws_hpack_dynamic_table_resize_drops_all(tb, size, new_max_size) ==
    s_dynamic_table_shrink(tb, size, 0)

\* evict as needed, set the new max
aws_hpack_dynamic_table_resize(tb, size, new_max_size) ==
    s_dynamic_table_shrink(tb, size, new_max_size)

InsertHeader(header) ==
    /\ LET s == aws_hpack_dynamic_table_insert_header(table, table_size, max_size, header)
       IN  /\ table' = s.table
           /\ table_size' = s.size
           /\ table_op' = [op |-> "insert", arg |-> 0,
                           evicted |-> Len(table) + 1 - Len(s.table)]
    /\ UNCHANGED <<max_size, smvars, codecvars, connvars, proxyvars>>

Resize(new_max_size) ==
    /\ LET s == aws_hpack_dynamic_table_resize(table, table_size, new_max_size)
       IN  /\ table' = s.table
           /\ table_size' = s.size
           /\ table_op' = [op |-> "resize", arg |-> new_max_size,
                           evicted |-> Len(table) - Len(s.table)]
    /\ max_size' = new_max_size
    /\ UNCHANGED <<smvars, codecvars, connvars, proxyvars>>

\* aws_hpack_dynamic_table_init, with the initial max_size an input
TableInit ==
    /\ SMInit
    /\ table = <<>>
    /\ table_size = 0
    /\ max_size \in 0..MaxTableSize
    /\ table_op = NoTableOp
    /\ CodecIdle
    /\ ConnIdle
    /\ ProxyIdle

TableNext ==
    \/ \E header \in Headers : InsertHeader(header)
    \/ \E new_max_size \in 0..MaxTableSize : Resize(new_max_size)

SpecTable == TableInit /\ [][TableNext]_vars


(* ------------------------------ HPACK codec --------------------------- *)
(* The encoder and the decoder of hpack.h, each with its own dynamic      *)
(* table, and the octets in flight between them.  Names and values are    *)
(* sequences of octets.                                                   *)

\* source/hpack.c is outside this model's sources: a table starts with the
\* RFC 7541 default size, scaled to MaxTableSize
InitialTableSize == MaxTableSize - 20
\* sizes given to update_max_table_size
SettingsSizes == {InitialTableSize \div 2, InitialTableSize}
\* slots of the table's ring buffer: as many as entries fit
buffer_capacity == InitialTableSize \div (HeaderOverhead + 1)

AWS_HTTP_HEADER_COMPRESSION_USE_CACHE == "USE_CACHE"
AWS_HTTP_HEADER_COMPRESSION_NO_CACHE == "NO_CACHE"
AWS_HTTP_HEADER_COMPRESSION_NO_FORWARD_CACHE == "NO_FORWARD_CACHE"
Compressions == {AWS_HTTP_HEADER_COMPRESSION_USE_CACHE,
                 AWS_HTTP_HEADER_COMPRESSION_NO_CACHE,
                 AWS_HTTP_HEADER_COMPRESSION_NO_FORWARD_CACHE}

AWS_HPACK_HUFFMAN_SMALLEST == "AWS_HPACK_HUFFMAN_SMALLEST"
AWS_HPACK_HUFFMAN_NEVER == "AWS_HPACK_HUFFMAN_NEVER"
AWS_HPACK_HUFFMAN_ALWAYS == "AWS_HPACK_HUFFMAN_ALWAYS"
HuffmanModes == {AWS_HPACK_HUFFMAN_SMALLEST, AWS_HPACK_HUFFMAN_NEVER,
                 AWS_HPACK_HUFFMAN_ALWAYS}

\* header names and values are sequences of ASCII octets: '/' is 47, '1' 49,
\* ':' 58, 'a' 97, 'e' 101, 'g' 103, 'h' 104, 'p' 112, 't' 116

\* the headers handed to the encoder: a static name+value match, a static
\* name-only match, a new name with a value Huffman shortens, an empty value
PATH == <<58, 112, 97, 116, 104>>
AGE == <<97, 103, 101>>
WireHeaders ==
    { [name |-> PATH, value |-> <<47>>],
      [name |-> AGE, value |-> <<49>>],
      [name |-> <<97>>, value |-> <<116, 101, 97>>],
      [name |-> <<97>>, value |-> <<>>] }

\* RFC 7541 Appendix A: 61 entries.  Entries 4, 5 and 21 are written out;
\* the others carry a name no header of this model has (octet 0, index).
aws_hpack_static_table_num_elements == 61
s_static_header_table ==
    [i \in 1..aws_hpack_static_table_num_elements |->
        CASE i = 4 -> [name |-> PATH, value |-> <<47>>]
          [] i = 5 -> [name |-> PATH, value |-> <<47, 0, i>>]
          [] i = 21 -> [name |-> AGE, value |-> <<>>]
          [] OTHER -> [name |-> <<0, i>>, value |-> <<>>]]

Min(S) == CHOOSE x \in S : \A y \in S : x <= y

\* smallest static index with this name and value, or 0
aws_hpack_static_table_find_name_and_value(header) ==
    LET S == {i \in DOMAIN s_static_header_table : s_static_header_table[i] = header}
    IN  IF S = {} THEN 0 ELSE Min(S)

\* smallest static index with this name, or 0
aws_hpack_static_table_find_name_only(name) ==
    LET S == {i \in DOMAIN s_static_header_table : s_static_header_table[i].name = name}
    IN  IF S = {} THEN 0 ELSE Min(S)

(* struct aws_hpack_dynamic_table with its two reverse lookups.  table is
   the buffer read from index_0 on, newest first; a lookup maps a header
   (a name) to the buffer slot of an entry. *)
EmptyLookup == [x \in {} |-> 0]

aws_hpack_dynamic_table_init(max) ==
    [table |-> <<>>, size |-> 0, max_size |-> max,
     protocol_max_size_setting |-> max, index_0 |-> 0,
     reverse_lookup |-> EmptyLookup, reverse_lookup_name_only |-> EmptyLookup]

\* buffer slot of the k-th newest entry
s_slot(T, k) == (T.index_0 + k - 1) % buffer_capacity

s_lookup_remove(map, key, slot) ==
    IF key \in DOMAIN map /\ map[key] = slot
    THEN [x \in DOMAIN map \ {key} |-> map[x]]
    ELSE map

s_lookup_put(map, key, slot) ==
    [x \in DOMAIN map \cup {key} |-> IF x = key THEN slot ELSE map[x]]

\* faulty variant: the lookups of the evicted entry are dropped even when
\* they point to a newer entry
s_dynamic_table_evict_forgets(T) ==
    LET n == Len(T.table)
        h == T.table[n]
    IN  [T EXCEPT !.table = SubSeq(T.table, 1, n - 1),
                  !.size = T.size - aws_hpack_get_header_size(h),
                  !.reverse_lookup =
                      [x \in DOMAIN T.reverse_lookup \ {h} |-> T.reverse_lookup[x]],
                  !.reverse_lookup_name_only =
                      [x \in DOMAIN T.reverse_lookup_name_only \ {h.name} |->
                          T.reverse_lookup_name_only[x]]]

\* the oldest entry leaves; a lookup that points to it goes with it
s_dynamic_table_evict(T) ==
    LET n == Len(T.table)
        h == T.table[n]
    IN  [T EXCEPT !.table = SubSeq(T.table, 1, n - 1),
                  !.size = T.size - aws_hpack_get_header_size(h),
                  !.reverse_lookup = s_lookup_remove(@, h, s_slot(T, n)),
                  !.reverse_lookup_name_only = s_lookup_remove(@, h.name, s_slot(T, n))]

RECURSIVE s_dynamic_table_evict_to(_, _)
s_dynamic_table_evict_to(T, len) ==
    IF Len(T.table) > len
    THEN s_dynamic_table_evict_to(s_dynamic_table_evict(T), len)
    ELSE T

\* aws_hpack_dynamic_table_insert_header on the whole structure
s_table_insert_header(T, header) ==
    LET r == aws_hpack_dynamic_table_insert_header(T.table, T.size, T.max_size, header)
    IN  IF aws_hpack_get_header_size(header) > T.max_size
        THEN s_dynamic_table_evict_to(T, 0)
        ELSE LET E == s_dynamic_table_evict_to(T, Len(r.table) - 1)
                 slot == (E.index_0 + buffer_capacity - 1) % buffer_capacity
             IN  [E EXCEPT !.table = r.table,
                           !.size = r.size,
                           !.index_0 = slot,
                           !.reverse_lookup = s_lookup_put(@, header, slot),
                           !.reverse_lookup_name_only =
                               s_lookup_put(@, header.name, slot)]

\* aws_hpack_dynamic_table_resize on the whole structure
s_table_resize(T, new_max_size) ==
    LET r == aws_hpack_dynamic_table_resize(T.table, T.size, new_max_size)
    IN  [s_dynamic_table_evict_to(T, Len(r.table)) EXCEPT !.max_size = new_max_size]

\* index (1 = newest) the lookup gives for a slot
s_index_of(T, slot) == ((slot + buffer_capacity - T.index_0) % buffer_capacity) + 1

\* dynamic index of an entry with this name and value; failing that, of an
\* entry with this name (has_value FALSE); failing that, 0
aws_hpack_dynamic_table_find_name_and_value(T, header) ==
    IF header \in DOMAIN T.reverse_lookup
    THEN [index |-> s_index_of(T, T.reverse_lookup[header]), has_value |-> TRUE]
    ELSE IF header.name \in DOMAIN T.reverse_lookup_name_only
    THEN [index |-> s_index_of(T, T.reverse_lookup_name_only[header.name]),
          has_value |-> FALSE]
    ELSE [index |-> 0, has_value |-> FALSE]

aws_hpack_dynamic_table_find_name_only(T, name) ==
    IF name \in DOMAIN T.reverse_lookup_name_only
    THEN s_index_of(T, T.reverse_lookup_name_only[name])
    ELSE 0

\* (name, value) in the static then the dynamic table; else the name only
aws_hpack_encoder_find_index(T, header) ==
    LET s == aws_hpack_static_table_find_name_and_value(header)
        d == aws_hpack_dynamic_table_find_name_and_value(T, header)
        n == aws_hpack_static_table_find_name_only(header.name)
    IN  IF s # 0 THEN [index |-> s, found_value |-> TRUE]
        ELSE IF d.has_value
        THEN [index |-> d.index + aws_hpack_static_table_num_elements,
              found_value |-> TRUE]
        ELSE IF n # 0 THEN [index |-> n, found_value |-> FALSE]
        ELSE IF d.index # 0
        THEN [index |-> d.index + aws_hpack_static_table_num_elements,
              found_value |-> FALSE]
        ELSE [index |-> 0, found_value |-> FALSE]

\* index 0 and indices past the dynamic table are illegal
s_index_is_legal(T, index) ==
    index >= 1 /\ index <= aws_hpack_static_table_num_elements + Len(T.table)

\* the header at a legal index of the combined space
aws_hpack_decoder_get_header(T, index) ==
    IF index <= aws_hpack_static_table_num_elements
    THEN s_static_header_table[index]
    ELSE T.table[index - aws_hpack_static_table_num_elements]

(* integers, RFC 7541 5.1 *)

MaxInteger == 2^IntegerBits - 1

RECURSIVE s_integer_groups(_)
s_integer_groups(rest) ==
    IF rest >= 128
    THEN <<(rest % 128) + 128>> \o s_integer_groups(rest \div 128)
    ELSE <<rest>>

aws_hpack_encode_integer(integer, starting_bits, prefix_size) ==
    LET prefix_mask == 2^prefix_size - 1
    IN  IF integer < prefix_mask
        THEN <<starting_bits + integer>>
        ELSE <<starting_bits + prefix_mask>> \o s_integer_groups(integer - prefix_mask)

(* the Huffman code of RFC 7541 Appendix B, for the characters in use *)
HuffmanCode ==
    [c \in {49, 97, 101, 116, 47} |->
        CASE c = 49 -> <<0, 0, 0, 0, 1>>
          [] c = 97 -> <<0, 0, 0, 1, 1>>
          [] c = 101 -> <<0, 0, 1, 0, 1>>
          [] c = 116 -> <<0, 1, 0, 0, 1>>
          [] c = 47 -> <<0, 1, 1, 0, 0, 0>>]

OctetBits(b) == [i \in 1..8 |-> (b \div 2^(8 - i)) % 2]

RECURSIVE BitsOfOctets(_)
BitsOfOctets(octets) ==
    IF octets = <<>> THEN <<>>
    ELSE OctetBits(Head(octets)) \o BitsOfOctets(Tail(octets))

RECURSIVE OctetsOfBits(_)
OctetsOfBits(bits) ==
    IF bits = <<>> THEN <<>>
    ELSE <<128 * bits[1] + 64 * bits[2] + 32 * bits[3] + 16 * bits[4]
           + 8 * bits[5] + 4 * bits[6] + 2 * bits[7] + bits[8]>>
         \o OctetsOfBits(SubSeq(bits, 9, Len(bits)))

RECURSIVE s_huffman_bits(_)
s_huffman_bits(str) ==
    IF str = <<>> THEN <<>>
    ELSE HuffmanCode[Head(str)] \o s_huffman_bits(Tail(str))

\* the codes of the characters, padded with 1 bits to whole octets
aws_huffman_encode(str) ==
    LET bits == s_huffman_bits(str)
        pad == (8 - (Len(bits) % 8)) % 8
    IN  OctetsOfBits(bits \o [i \in 1..pad |-> 1])

IsPrefix(a, b) == Len(a) <= Len(b) /\ SubSeq(b, 1, Len(a)) = a

\* characters are taken off the front of the bits while a code matches;
\* eight bits that start no code of the table are an error
RECURSIVE aws_huffman_decode(_, _)
aws_huffman_decode(bits, out) ==
    LET M == {c \in DOMAIN HuffmanCode : IsPrefix(HuffmanCode[c], bits)}
    IN  IF M # {}
        THEN LET c == CHOOSE c \in M : TRUE
             IN  aws_huffman_decode(SubSeq(bits, Len(HuffmanCode[c]) + 1, Len(bits)),
                                    Append(out, c))
        ELSE [out |-> out, bits |-> bits, error |-> Len(bits) >= 8]

\* length-prefixed string, Huffman coded as the mode says
aws_hpack_encode_string(mode, to_encode) ==
    LET huff == aws_huffman_encode(to_encode)
        use_huffman == \/ mode = AWS_HPACK_HUFFMAN_ALWAYS
                       \/ (mode = AWS_HPACK_HUFFMAN_SMALLEST /\ Len(huff) < Len(to_encode))
        payload == IF use_huffman THEN huff ELSE to_encode
    IN  aws_hpack_encode_integer(Len(payload), IF use_huffman THEN 128 ELSE 0, 7)
        \o payload

(* struct aws_hpack_encoder *)
aws_hpack_encoder_init(max) ==
    [huffman_mode |-> AWS_HPACK_HUFFMAN_SMALLEST,
     dynamic_table |-> aws_hpack_dynamic_table_init(max),
     dynamic_table_size_update |->
         [last_value |-> 0, smallest_value |-> 0, pending |-> FALSE]]

aws_hpack_encoder_set_huffman_mode(enc, mode) == [enc EXCEPT !.huffman_mode = mode]

\* record a size update to emit with the next block
aws_hpack_encoder_update_max_table_size(enc, new_max_size) ==
    LET u == enc.dynamic_table_size_update
    IN  [enc EXCEPT !.dynamic_table_size_update =
            [last_value |-> new_max_size,
             smallest_value |-> IF u.pending /\ u.smallest_value < new_max_size
                                THEN u.smallest_value ELSE new_max_size,
             pending |-> TRUE]]

\* faulty variant: the pending update stays pending
s_encode_size_updates_not_cleared(enc) ==
    LET u == enc.dynamic_table_size_update
    IN  IF ~u.pending THEN [encoder |-> enc, octets |-> <<>>, emitted |-> <<>>]
        ELSE [encoder |-> [enc EXCEPT !.dynamic_table =
                               s_table_resize(s_table_resize(@, u.smallest_value),
                                              u.last_value)],
              octets |-> (IF u.smallest_value # u.last_value
                          THEN aws_hpack_encode_integer(u.smallest_value, 32, 5)
                          ELSE <<>>)
                         \o aws_hpack_encode_integer(u.last_value, 32, 5),
              emitted |-> (IF u.smallest_value # u.last_value
                           THEN <<u.smallest_value>> ELSE <<>>) \o <<u.last_value>>]

\* the Dynamic Table Size Updates at the start of a block: the smallest
\* value when it differs from the last one, then the last one
s_encode_size_updates(enc) ==
    LET u == enc.dynamic_table_size_update
    IN  IF ~u.pending THEN [encoder |-> enc, octets |-> <<>>, emitted |-> <<>>]
        ELSE [encoder |-> [enc EXCEPT !.dynamic_table =
                               s_table_resize(s_table_resize(@, u.smallest_value),
                                              u.last_value),
                           !.dynamic_table_size_update.pending = FALSE],
              octets |-> (IF u.smallest_value # u.last_value
                          THEN aws_hpack_encode_integer(u.smallest_value, 32, 5)
                          ELSE <<>>)
                         \o aws_hpack_encode_integer(u.last_value, 32, 5),
              emitted |-> (IF u.smallest_value # u.last_value
                           THEN <<u.smallest_value>> ELSE <<>>) \o <<u.last_value>>]

\* one header field, spec 4.3: indexed when name and value are found, else
\* a literal of the form the compression hint asks for
s_encode_header_field(enc, header, compression) ==
    LET f == aws_hpack_encoder_find_index(enc.dynamic_table, header)
        starting_bits ==
            CASE compression = AWS_HTTP_HEADER_COMPRESSION_USE_CACHE -> 64
              [] compression = AWS_HTTP_HEADER_COMPRESSION_NO_CACHE -> 0
              [] compression = AWS_HTTP_HEADER_COMPRESSION_NO_FORWARD_CACHE -> 16
        prefix_size ==
            IF compression = AWS_HTTP_HEADER_COMPRESSION_USE_CACHE THEN 6 ELSE 4
    IN  IF f.found_value
        THEN [encoder |-> enc, octets |-> aws_hpack_encode_integer(f.index, 128, 7)]
        ELSE [encoder |->
                  IF compression = AWS_HTTP_HEADER_COMPRESSION_USE_CACHE
                  THEN [enc EXCEPT !.dynamic_table = s_table_insert_header(@, header)]
                  ELSE enc,
              octets |->
                  aws_hpack_encode_integer(f.index, starting_bits, prefix_size)
                  \o (IF f.index = 0
                      THEN aws_hpack_encode_string(enc.huffman_mode, header.name)
                      ELSE <<>>)
                  \o aws_hpack_encode_string(enc.huffman_mode, header.value)]

RECURSIVE s_encode_header_fields(_, _, _)
s_encode_header_fields(enc, headers, octets) ==
    IF headers = <<>> THEN [encoder |-> enc, octets |-> octets]
    ELSE LET r == s_encode_header_field(enc, Head(headers).header,
                                        Head(headers).compression)
         IN  s_encode_header_fields(r.encoder, Tail(headers), octets \o r.octets)

\* the size updates, then the headers in order
aws_hpack_encode_header_block(enc, headers) ==
    LET u == s_encode_size_updates(enc)
        r == s_encode_header_fields(u.encoder, headers, u.octets)
    IN  [encoder |-> r.encoder, octets |-> r.octets, emitted |-> u.emitted]

(* struct aws_hpack_decoder *)
HPACK_INTEGER_STATE_INIT == "HPACK_INTEGER_STATE_INIT"
HPACK_INTEGER_STATE_VALUE == "HPACK_INTEGER_STATE_VALUE"
HPACK_STRING_STATE_INIT == "HPACK_STRING_STATE_INIT"
HPACK_STRING_STATE_LENGTH == "HPACK_STRING_STATE_LENGTH"
HPACK_STRING_STATE_VALUE == "HPACK_STRING_STATE_VALUE"
HPACK_ENTRY_STATE_INIT == "HPACK_ENTRY_STATE_INIT"
HPACK_ENTRY_STATE_INDEXED == "HPACK_ENTRY_STATE_INDEXED"
HPACK_ENTRY_STATE_LITERAL_BEGIN == "HPACK_ENTRY_STATE_LITERAL_BEGIN"
HPACK_ENTRY_STATE_LITERAL_NAME_STRING == "HPACK_ENTRY_STATE_LITERAL_NAME_STRING"
HPACK_ENTRY_STATE_LITERAL_VALUE_STRING == "HPACK_ENTRY_STATE_LITERAL_VALUE_STRING"
HPACK_ENTRY_STATE_DYNAMIC_TABLE_RESIZE == "HPACK_ENTRY_STATE_DYNAMIC_TABLE_RESIZE"

AWS_HPACK_DECODE_T_ONGOING == "AWS_HPACK_DECODE_T_ONGOING"
AWS_HPACK_DECODE_T_HEADER_FIELD == "AWS_HPACK_DECODE_T_HEADER_FIELD"
AWS_HPACK_DECODE_T_DYNAMIC_TABLE_RESIZE == "AWS_HPACK_DECODE_T_DYNAMIC_TABLE_RESIZE"

OversizedInteger == "OversizedInteger"
CompressionError == "CompressionError"
ProtocolError == "ProtocolError"

IntegerInit == [state |-> HPACK_INTEGER_STATE_INIT, bit_count |-> 0]
StringInit == [state |-> HPACK_STRING_STATE_INIT, use_huffman |-> FALSE, length |-> 0]
EntryInit ==
    [state |-> HPACK_ENTRY_STATE_INIT,
     index |-> 0,
     literal |-> [prefix_size |-> 0,
                  compression |-> AWS_HTTP_HEADER_COMPRESSION_USE_CACHE,
                  name_index |-> 0, name_length |-> 0],
     size |-> 0,
     scratch |-> <<>>]

aws_hpack_decoder_init(max) ==
    [huffman_decoder |-> <<>>,
     dynamic_table |-> aws_hpack_dynamic_table_init(max),
     progress_integer |-> IntegerInit,
     progress_string |-> StringInit,
     progress_entry |-> EntryInit]

\* the last maximum the decoder is told to enforce
aws_hpack_decoder_update_max_table_size(dec, new_max_size) ==
    [dec EXCEPT !.dynamic_table.protocol_max_size_setting = new_max_size]

Rest(cursor, consumed) == SubSeq(cursor, consumed + 1, Len(cursor))

\* Resumable prefix integer.  p is progress_integer, integer the caller's
\* accumulator; octets are consumed while there are any and the integer is
\* not complete.
RECURSIVE aws_hpack_decode_integer(_, _, _, _, _)
aws_hpack_decode_integer(p, integer, cursor, prefix_size, consumed) ==
    IF cursor = <<>>
    THEN [progress |-> p, integer |-> integer, consumed |-> consumed,
          complete |-> FALSE, error |-> NoError]
    ELSE
    LET byte == Head(cursor) IN
    IF p.state = HPACK_INTEGER_STATE_INIT
    THEN LET prefix_mask == 2^prefix_size - 1
             value == byte % 2^prefix_size
         IN  IF value < prefix_mask
             THEN [progress |-> IntegerInit, integer |-> value,
                   consumed |-> consumed + 1, complete |-> TRUE, error |-> NoError]
             ELSE aws_hpack_decode_integer(
                      [state |-> HPACK_INTEGER_STATE_VALUE, bit_count |-> 0],
                      prefix_mask, Tail(cursor), prefix_size, consumed + 1)
    ELSE LET new_byte_value == (byte % 128) * 2^p.bit_count
         IN  IF integer + new_byte_value > MaxInteger
             THEN [progress |-> p, integer |-> integer, consumed |-> consumed + 1,
                   complete |-> FALSE, error |-> OversizedInteger]
             ELSE IF byte < 128
             THEN [progress |-> IntegerInit, integer |-> integer + new_byte_value,
                   consumed |-> consumed + 1, complete |-> TRUE, error |-> NoError]
             ELSE IF p.bit_count + 7 > IntegerBits - 7
             THEN [progress |-> [p EXCEPT !.bit_count = @ + 7],
                   integer |-> integer + new_byte_value, consumed |-> consumed + 1,
                   complete |-> FALSE, error |-> OversizedInteger]
             ELSE aws_hpack_decode_integer(
                      [p EXCEPT !.bit_count = @ + 7], integer + new_byte_value,
                      Tail(cursor), prefix_size, consumed + 1)

\* Resumable string: Init -> Length -> Value.  The octets (or the characters
\* the Huffman decoder makes of them) are added to the entry's scratch.
RECURSIVE aws_hpack_decode_string(_, _, _)
aws_hpack_decode_string(dec, cursor, consumed) ==
    LET s == dec.progress_string
        left == Rest(cursor, consumed)
    IN
    CASE s.state = HPACK_STRING_STATE_INIT ->
           IF left = <<>>
           THEN [decoder |-> dec, consumed |-> consumed, complete |-> FALSE,
                 error |-> NoError]
           ELSE aws_hpack_decode_string(
                    [dec EXCEPT !.progress_string =
                        [state |-> HPACK_STRING_STATE_LENGTH,
                         use_huffman |-> Head(left) >= 128, length |-> 0]],
                    cursor, consumed)
      [] s.state = HPACK_STRING_STATE_LENGTH ->
           LET r == aws_hpack_decode_integer(dec.progress_integer, s.length, left, 7, 0)
               d == [dec EXCEPT !.progress_integer = r.progress,
                                !.progress_string.length = r.integer]
           IN  IF r.error # NoError
               THEN [decoder |-> d, consumed |-> consumed + r.consumed,
                     complete |-> FALSE, error |-> r.error]
               ELSE IF ~r.complete
               THEN [decoder |-> d, consumed |-> consumed + r.consumed,
                     complete |-> FALSE, error |-> NoError]
               ELSE aws_hpack_decode_string(
                        [d EXCEPT !.progress_string.state = HPACK_STRING_STATE_VALUE],
                        cursor, consumed + r.consumed)
      [] s.state = HPACK_STRING_STATE_VALUE ->
           LET n == IF s.length < Len(left) THEN s.length ELSE Len(left)
               chunk == SubSeq(left, 1, n)
               h == aws_huffman_decode(dec.huffman_decoder \o BitsOfOctets(chunk), <<>>)
               done == s.length = n
               d == IF s.use_huffman
                    THEN [dec EXCEPT !.progress_entry.scratch = @ \o h.out,
                                     !.huffman_decoder = h.bits,
                                     !.progress_string.length = @ - n]
                    ELSE [dec EXCEPT !.progress_entry.scratch = @ \o chunk,
                                     !.progress_string.length = @ - n]
           IN  IF s.use_huffman /\ (h.error \/ (done /\ \E i \in DOMAIN h.bits : h.bits[i] = 0))
               THEN [decoder |-> d, consumed |-> consumed + n, complete |-> FALSE,
                     error |-> CompressionError]
               ELSE IF ~done
               THEN [decoder |-> d, consumed |-> consumed + n, complete |-> FALSE,
                     error |-> NoError]
               ELSE [decoder |-> [d EXCEPT !.progress_string = StringInit,
                                           !.huffman_decoder = <<>>],
                     consumed |-> consumed + n, complete |-> TRUE, error |-> NoError]

NoResult == [type |-> AWS_HPACK_DECODE_T_ONGOING]
HeaderFieldResult(header, compression) ==
    [type |-> AWS_HPACK_DECODE_T_HEADER_FIELD,
     header_field |-> [header |-> header, compression |-> compression]]
ResizeResult(size) ==
    [type |-> AWS_HPACK_DECODE_T_DYNAMIC_TABLE_RESIZE, dynamic_table_resize |-> size]

\* faulty variant: the integer's progress is not kept for the next call
OngoingForgetsInteger(dec, consumed) ==
    [decoder |-> [dec EXCEPT !.progress_integer = IntegerInit],
     consumed |-> consumed, result |-> NoResult, error |-> NoError]

\* the cursor is used up before the entry is complete
Ongoing(dec, consumed) ==
    [decoder |-> dec, consumed |-> consumed, result |-> NoResult, error |-> NoError]
Failed(dec, consumed, error) ==
    [decoder |-> dec, consumed |-> consumed, result |-> NoResult, error |-> error]
Complete(dec, consumed, result) ==
    [decoder |-> [dec EXCEPT !.progress_entry = EntryInit],
     consumed |-> consumed, result |-> result, error |-> NoError]

\* the entry state the first octet selects, spec 4.4
s_classify(byte) ==
    IF byte >= 128
    THEN [EntryInit EXCEPT !.state = HPACK_ENTRY_STATE_INDEXED]
    ELSE IF byte >= 64
    THEN [EntryInit EXCEPT !.state = HPACK_ENTRY_STATE_LITERAL_BEGIN,
                           !.literal.prefix_size = 6,
                           !.literal.compression = AWS_HTTP_HEADER_COMPRESSION_USE_CACHE]
    ELSE IF byte >= 32
    THEN [EntryInit EXCEPT !.state = HPACK_ENTRY_STATE_DYNAMIC_TABLE_RESIZE]
    ELSE IF byte >= 16
    THEN [EntryInit EXCEPT !.state = HPACK_ENTRY_STATE_LITERAL_BEGIN,
                           !.literal.prefix_size = 4,
                           !.literal.compression =
                               AWS_HTTP_HEADER_COMPRESSION_NO_FORWARD_CACHE]
    ELSE [EntryInit EXCEPT !.state = HPACK_ENTRY_STATE_LITERAL_BEGIN,
                           !.literal.prefix_size = 4,
                           !.literal.compression = AWS_HTTP_HEADER_COMPRESSION_NO_CACHE]

\* Advance one entry: octets of the cursor are consumed until an entry is
\* complete, the cursor is empty (Ongoing) or an error is found.
RECURSIVE aws_hpack_decode(_, _, _)
aws_hpack_decode(dec, cursor, consumed) ==
    LET e == dec.progress_entry
        left == Rest(cursor, consumed)
    IN
    CASE e.state = HPACK_ENTRY_STATE_INIT ->
           IF left = <<>> THEN Ongoing(dec, consumed)
           ELSE aws_hpack_decode([dec EXCEPT !.progress_entry = s_classify(Head(left))],
                                 cursor, consumed)
      [] e.state = HPACK_ENTRY_STATE_INDEXED ->
           LET r == aws_hpack_decode_integer(dec.progress_integer, e.index, left, 7, 0)
               d == [dec EXCEPT !.progress_integer = r.progress,
                                !.progress_entry.index = r.integer]
           IN  IF r.error # NoError THEN Failed(d, consumed + r.consumed, r.error)
               ELSE IF ~r.complete THEN Ongoing(d, consumed + r.consumed)
               ELSE IF ~s_index_is_legal(d.dynamic_table, r.integer)
               THEN Failed(d, consumed + r.consumed, ProtocolError)
               ELSE Complete(d, consumed + r.consumed,
                        HeaderFieldResult(
                            aws_hpack_decoder_get_header(d.dynamic_table, r.integer),
                            AWS_HTTP_HEADER_COMPRESSION_USE_CACHE))
      [] e.state = HPACK_ENTRY_STATE_LITERAL_BEGIN ->
           LET r == aws_hpack_decode_integer(dec.progress_integer, e.literal.name_index,
                                             left, e.literal.prefix_size, 0)
               d == [dec EXCEPT !.progress_integer = r.progress,
                                !.progress_entry.literal.name_index = r.integer]
           IN  IF r.error # NoError THEN Failed(d, consumed + r.consumed, r.error)
               ELSE IF ~r.complete THEN Ongoing(d, consumed + r.consumed)
               ELSE IF r.integer = 0
               THEN aws_hpack_decode(
                        [d EXCEPT !.progress_entry.state =
                                      HPACK_ENTRY_STATE_LITERAL_NAME_STRING],
                        cursor, consumed + r.consumed)
               ELSE IF ~s_index_is_legal(d.dynamic_table, r.integer)
               THEN Failed(d, consumed + r.consumed, ProtocolError)
               ELSE LET name == aws_hpack_decoder_get_header(d.dynamic_table,
                                                             r.integer).name
                    IN  aws_hpack_decode(
                            [d EXCEPT !.progress_entry.state =
                                          HPACK_ENTRY_STATE_LITERAL_VALUE_STRING,
                                      !.progress_entry.scratch = name,
                                      !.progress_entry.literal.name_length = Len(name)],
                            cursor, consumed + r.consumed)
      [] e.state = HPACK_ENTRY_STATE_LITERAL_NAME_STRING ->
           LET r == aws_hpack_decode_string(dec, left, 0)
           IN  IF r.error # NoError THEN Failed(r.decoder, consumed + r.consumed, r.error)
               ELSE IF ~r.complete THEN Ongoing(r.decoder, consumed + r.consumed)
               ELSE aws_hpack_decode(
                        [r.decoder EXCEPT
                            !.progress_entry.state =
                                HPACK_ENTRY_STATE_LITERAL_VALUE_STRING,
                            !.progress_entry.literal.name_length =
                                Len(r.decoder.progress_entry.scratch)],
                        cursor, consumed + r.consumed)
      [] e.state = HPACK_ENTRY_STATE_LITERAL_VALUE_STRING ->
           LET r == aws_hpack_decode_string(dec, left, 0)
               scratch == r.decoder.progress_entry.scratch
               header == [name |-> SubSeq(scratch, 1, e.literal.name_length),
                          value |-> SubSeq(scratch, e.literal.name_length + 1,
                                           Len(scratch))]
           IN  IF r.error # NoError THEN Failed(r.decoder, consumed + r.consumed, r.error)
               ELSE IF ~r.complete THEN Ongoing(r.decoder, consumed + r.consumed)
               ELSE Complete(
                        IF e.literal.compression = AWS_HTTP_HEADER_COMPRESSION_USE_CACHE
                        THEN [r.decoder EXCEPT !.dynamic_table =
                                                   s_table_insert_header(@, header)]
                        ELSE r.decoder,
                        consumed + r.consumed,
                        HeaderFieldResult(header, e.literal.compression))
      [] e.state = HPACK_ENTRY_STATE_DYNAMIC_TABLE_RESIZE ->
           LET r == aws_hpack_decode_integer(dec.progress_integer, e.size, left, 5, 0)
               d == [dec EXCEPT !.progress_integer = r.progress,
                                !.progress_entry.size = r.integer]
           IN  IF r.error # NoError THEN Failed(d, consumed + r.consumed, r.error)
               ELSE IF ~r.complete THEN Ongoing(d, consumed + r.consumed)
               ELSE IF r.integer > d.dynamic_table.protocol_max_size_setting
               THEN Failed(d, consumed + r.consumed, ProtocolError)
               ELSE Complete([d EXCEPT !.dynamic_table = s_table_resize(@, r.integer)],
                             consumed + r.consumed, ResizeResult(r.integer))

(* the codec at work *)

\* what a peer may send: index 0 and then a good entry, a size update to
\* 0, a size update past every maximum, an integer past the accumulator, a
\* Huffman string padded with 0 bits and then a good entry, an index past
\* the tables, a good entry
PeerEntries ==
    { <<128, 132>>,
      <<32>>,
      aws_hpack_encode_integer(MaxTableSize + 1, 32, 5),
      <<255, 255, 255, 255>>,
      <<0, 129, 24, 132>>,
      <<255, 0>>,
      <<132>> }

\* header lists of one block
HeaderLists ==
    LET F == [header : WireHeaders, compression : Compressions]
    IN  UNION {[1..n -> F] : n \in 0..MaxBlockHeaders}

\* aws_hpack_encoder_init, aws_hpack_decoder_init and a Huffman mode
CodecInit ==
    /\ SMInit
    /\ TableIdle
    /\ ConnIdle
    /\ ProxyIdle
    /\ \E mode \in HuffmanModes :
           encoder = aws_hpack_encoder_set_huffman_mode(
                         aws_hpack_encoder_init(InitialTableSize), mode)
    /\ decoder = aws_hpack_decoder_init(InitialTableSize)
    /\ wire = <<>>
    /\ sent = <<>>
    /\ decoded = <<>>
    /\ fields_in_block = 0
    /\ injected = 0
    /\ decode_error = NoError
    /\ decode_failed = FALSE
    /\ updates_called = <<>>
    /\ last_block = NoBlock
    /\ used = [headers |-> 0, updates |-> 0]

\* SETTINGS_HEADER_TABLE_SIZE is acknowledged: the decoder enforces the new
\* maximum and the encoder has a size update to emit (hpack.h 209-213, 258-262)
Settings(new_max_size) ==
    /\ wire = <<>>
    /\ used.updates < MaxUpdates
    /\ used' = [used EXCEPT !.updates = @ + 1]
    /\ encoder' = aws_hpack_encoder_update_max_table_size(encoder, new_max_size)
    /\ decoder' = aws_hpack_decoder_update_max_table_size(decoder, new_max_size)
    /\ updates_called' = Append(updates_called, new_max_size)
    /\ sent' = <<>>
    /\ decoded' = <<>>
    /\ last_block' = NoBlock
    /\ UNCHANGED <<wire, fields_in_block, injected, decode_error, decode_failed,
                   smvars, tablevars, connvars, proxyvars>>

\* a header block is encoded and sent, once the block before it is read
EncodeHeaderBlock(headers) ==
    /\ wire = <<>>
    /\ used.headers + Len(headers) <= MaxHeaders
    /\ headers # <<>> \/ encoder.dynamic_table_size_update.pending
    /\ used' = [used EXCEPT !.headers = @ + Len(headers)]
    /\ LET r == aws_hpack_encode_header_block(encoder, headers)
       IN  /\ encoder' = r.encoder
           /\ wire' = r.octets
           /\ last_block' = [called |-> updates_called, emitted |-> r.emitted]
    /\ sent' = headers
    /\ decoded' = <<>>
    /\ fields_in_block' = 0
    /\ updates_called' = <<>>
    /\ UNCHANGED <<decoder, injected, decode_error, decode_failed, smvars, tablevars, connvars, proxyvars>>

\* the peer adds an entry of its own to the block in flight
Inject(entry) ==
    /\ injected < MaxInjected
    /\ wire = <<>>
    /\ wire' = entry
    /\ injected' = injected + 1
    /\ sent' = <<>>
    /\ decoded' = <<>>
    /\ last_block' = NoBlock
    /\ UNCHANGED <<encoder, decoder, fields_in_block, decode_error, decode_failed,
                   updates_called, used, smvars, tablevars, connvars, proxyvars>>

\* one call of aws_hpack_decode with the next k octets as its cursor
Decode(k) ==
    /\ k \in 1..Len(wire)
    /\ LET r == aws_hpack_decode(decoder, SubSeq(wire, 1, k), 0)
       IN  /\ decoder' = r.decoder
           /\ wire' = Rest(wire, r.consumed)
           /\ decoded' = IF r.error = NoError
                            /\ r.result.type # AWS_HPACK_DECODE_T_ONGOING
                         THEN Append(decoded, r.result) ELSE decoded
           /\ fields_in_block' =
                  IF r.error = NoError
                     /\ r.result.type = AWS_HPACK_DECODE_T_HEADER_FIELD
                  THEN fields_in_block + 1 ELSE fields_in_block
           /\ decode_error' = r.error
           /\ decode_failed' = (decode_failed \/ r.error # NoError)
    /\ UNCHANGED <<encoder, sent, injected, updates_called, last_block, used,
                   smvars, tablevars, connvars, proxyvars>>

CodecNext ==
    \/ \E new_max_size \in SettingsSizes : Settings(new_max_size)
    \/ \E headers \in HeaderLists : EncodeHeaderBlock(headers)
    \/ \E k \in 1..MaxSlice : Decode(k)

SpecCodec == CodecInit /\ [][CodecNext]_vars

\* a decoder and a peer that writes the octets by hand
PeerNext ==
    \/ \E entry \in PeerEntries : Inject(entry)
    \/ \E k \in 1..MaxSlice : Decode(k)

SpecPeer == CodecInit /\ [][PeerNext]_vars

\* ------------------------------------------------------------------
\* connection.c: client and server connections on channels
\* ------------------------------------------------------------------

AWS_OP_SUCCESS == "AWS_OP_SUCCESS"
AWS_OP_ERR == "AWS_OP_ERR"
AWS_ERROR_UNKNOWN == "AWS_ERROR_UNKNOWN"
AWS_ERROR_OOM == "AWS_ERROR_OOM"
AWS_ERROR_INVALID_ARGUMENT == "AWS_ERROR_INVALID_ARGUMENT"
AWS_ERROR_INVALID_STATE == "AWS_ERROR_INVALID_STATE"
AWS_ERROR_HTTP_UNSUPPORTED_PROTOCOL == "AWS_ERROR_HTTP_UNSUPPORTED_PROTOCOL"
AWS_ERROR_HTTP_REACTION_REQUIRED == "AWS_ERROR_HTTP_REACTION_REQUIRED"

\* the pointer to the connection of channel ch
Handle(ch) == ToString(ch)

\* a callback of the user, with the connection and the error code it got
Callback(fn, connection, error_code) ==
    [fn |-> fn, connection |-> connection, error_code |-> error_code]

\* what the calls made by s_connection_new may do: each of them succeeds or
\* not, and ALPN negotiates a protocol or none (""); error is what a failing
\* callee raised
IoOk ==
    [slot_new |-> TRUE, slot_insert |-> TRUE, tls_handler |-> TRUE, protocol |-> "",
     connection_new |-> TRUE, set_handler |-> TRUE, error |-> AWS_ERROR_OOM]

IoOutcomes ==
    { IoOk,
      [IoOk EXCEPT !.slot_new = FALSE],
      [IoOk EXCEPT !.slot_insert = FALSE, !.error = AWS_ERROR_INVALID_STATE],
      [IoOk EXCEPT !.tls_handler = FALSE],
      [IoOk EXCEPT !.protocol = "http/1.1"],
      [IoOk EXCEPT !.protocol = "h2"],
      [IoOk EXCEPT !.protocol = "spdy/3"],
      [IoOk EXCEPT !.connection_new = FALSE],
      [IoOk EXCEPT !.set_handler = FALSE, !.error = AWS_ERROR_INVALID_STATE] }

AWS_HTTP_VERSION_1_1 == "AWS_HTTP_VERSION_1_1"
AWS_HTTP_VERSION_2 == "AWS_HTTP_VERSION_2"

\* server_data of a new server connection: nothing configured
NoServerData ==
    [on_incoming_request |-> NULL, on_shutdown |-> NULL, connection_user_data |-> NULL]

\* aws_http_connection_new_http1_1_server / _client
aws_http_connection_new_http1_1(is_server) ==
    [exists |-> TRUE,
     server_data |-> IF is_server THEN <<NoServerData>> ELSE <<>>,
     refcount |-> 1]

\* s_connection_new: the connection made, or none and the error raised
s_connection_new(is_server, is_using_tls, io) ==
    LET failed(error) == [connection |-> NoConnection, last_error |-> error]
        version == IF is_using_tls /\ io.protocol = "h2"
                   THEN AWS_HTTP_VERSION_2
                   ELSE AWS_HTTP_VERSION_1_1
    IN  IF ~io.slot_new THEN failed(io.error)
        ELSE IF ~io.slot_insert THEN failed(io.error)
        ELSE IF is_using_tls /\ ~io.tls_handler THEN failed(AWS_ERROR_INVALID_STATE)
        ELSE IF version # AWS_HTTP_VERSION_1_1
             THEN failed(AWS_ERROR_HTTP_UNSUPPORTED_PROTOCOL)
        ELSE IF ~io.connection_new THEN failed(io.error)
        ELSE IF ~io.set_handler THEN failed(io.error)
        ELSE [connection |-> aws_http_connection_new_http1_1(is_server),
              last_error |-> AWS_ERROR_SUCCESS]

\* aws_channel_shutdown: the first call starts the shutdown with its error
\* code, later calls change nothing
aws_channel_shutdown(c, error_code) ==
    IF c.state = "open"
    THEN [state |-> "shutting_down", error_code |-> error_code]
    ELSE c

\* struct aws_http_server_connection_options; <<>> is a NULL pointer
ServerConnectionOptions ==
    {<<>>} \cup
    { <<o>> : o \in [on_incoming_request : {NULL, "on_incoming_request"},
                     on_shutdown : {NULL, "on_shutdown"},
                     connection_user_data : {"user_data_1", "user_data_2"}] }

\* faulty variant: configures a connection that is configured already
aws_http_connection_configure_server_again(c, options) ==
    IF ~c.exists \/ options = <<>> \/ options[1].on_incoming_request = NULL
    THEN [connection |-> c, result |-> AWS_OP_ERR, error |-> AWS_ERROR_INVALID_ARGUMENT]
    ELSE IF c.server_data = <<>>
    THEN [connection |-> c, result |-> AWS_OP_ERR, error |-> AWS_ERROR_INVALID_STATE]
    ELSE [connection |-> [c EXCEPT !.server_data = options],
          result |-> AWS_OP_SUCCESS, error |-> AWS_ERROR_SUCCESS]

\* aws_http_connection_configure_server; c.exists is FALSE for a NULL connection
aws_http_connection_configure_server(c, options) ==
    IF ~c.exists \/ options = <<>> \/ options[1].on_incoming_request = NULL
    THEN [connection |-> c, result |-> AWS_OP_ERR, error |-> AWS_ERROR_INVALID_ARGUMENT]
    ELSE IF c.server_data = <<>>
    THEN [connection |-> c, result |-> AWS_OP_ERR, error |-> AWS_ERROR_INVALID_STATE]
    ELSE IF c.server_data[1].on_incoming_request # NULL
    THEN [connection |-> c, result |-> AWS_OP_ERR, error |-> AWS_ERROR_INVALID_STATE]
    ELSE [connection |-> [c EXCEPT !.server_data = options],
          result |-> AWS_OP_SUCCESS, error |-> AWS_ERROR_SUCCESS]

\* the user holds a reference to the connection of channel ch: it was given
\* to a callback and not released since
UserHolds(ch) ==
    /\ http_connection[ch].exists
    /\ http_connection[ch].refcount > 0
    /\ \E i \in 1..Len(user_calls[ch]) : user_calls[ch][i].connection = Handle(ch)

\* the user calls aws_http_connection_configure_server, c = 0 for NULL
Configure(c, options) ==
    /\ c # 0 => UserHolds(c)
    /\ LET r == aws_http_connection_configure_server(
                    IF c = 0 THEN NoConnection ELSE http_connection[c], options)
       IN  /\ http_connection' =
                  IF c = 0 THEN http_connection
                  ELSE [http_connection EXCEPT ![c] = r.connection]
           /\ api_return' = [fn |-> "aws_http_connection_configure_server",
                             connection |-> c, result |-> r.result, error |-> r.error]
    /\ UNCHANGED <<http_bootstrap, http_server, channels, user_calls, smvars, hpackvars, proxyvars>>

\* aws_http_connection_release of the user's reference: the last reference
\* shuts the channel down
aws_http_connection_release(ch) ==
    /\ UserHolds(ch)
    /\ http_connection' = [http_connection EXCEPT ![ch].refcount = @ - 1]
    /\ channels' = IF http_connection[ch].refcount = 1
                   THEN [channels EXCEPT ![ch] = aws_channel_shutdown(@, AWS_ERROR_SUCCESS)]
                   ELSE channels
    /\ UNCHANGED <<http_bootstrap, http_server, user_calls, api_return, smvars, hpackvars, proxyvars>>

\* the peer closes the connection, or the socket fails
ChannelClosed(ch, error_code) ==
    /\ channels[ch].state = "open"
    /\ channels' = [channels EXCEPT ![ch] = aws_channel_shutdown(@, error_code)]
    /\ UNCHANGED <<http_bootstrap, http_server, http_connection, user_calls, api_return,
                   smvars, hpackvars, proxyvars>>

\* struct aws_http_client_connection_options, the fields connection.c reads
ClientOptions ==
    [on_setup : {NULL, "on_setup"},
     on_shutdown : {NULL, "on_shutdown"},
     tls_options : {NULL, "tls_options"}]

\* what allocation and aws_client_bootstrap_new_socket_channel may do
ConnectOutcomes == {"ok", "no_memory", "no_channel"}

\* aws_http_client_connect
aws_http_client_connect(options, outcome) ==
    IF options.on_setup = NULL
    THEN [http_bootstrap |-> NoBootstrap, result |-> AWS_OP_ERR,
          error |-> AWS_ERROR_INVALID_ARGUMENT]
    ELSE IF outcome = "no_memory"
    THEN [http_bootstrap |-> NoBootstrap, result |-> AWS_OP_ERR, error |-> AWS_ERROR_OOM]
    ELSE IF outcome = "no_channel"
    THEN [http_bootstrap |-> NoBootstrap, result |-> AWS_OP_ERR,
          error |-> AWS_ERROR_INVALID_STATE]
    ELSE [http_bootstrap |->
              [allocated |-> TRUE,
               is_using_tls |-> options.tls_options # NULL,
               on_setup |-> options.on_setup,
               on_shutdown |-> options.on_shutdown,
               connection |-> NULL],
          result |-> AWS_OP_SUCCESS, error |-> AWS_ERROR_SUCCESS]

ClientConnect(options, outcome) ==
    /\ channels[ClientChannel].state = "none"
    /\ LET r == aws_http_client_connect(options, outcome)
       IN  /\ http_bootstrap' = r.http_bootstrap
           /\ channels' = IF r.result = AWS_OP_SUCCESS
                          THEN [channels EXCEPT ![ClientChannel].state = "connecting"]
                          ELSE channels
           /\ api_return' = [fn |-> "aws_http_client_connect", connection |-> 0,
                             result |-> r.result, error |-> r.error]
    /\ UNCHANGED <<http_server, http_connection, user_calls, smvars, hpackvars, proxyvars>>

\* s_client_bootstrap_on_channel_setup: the bootstrap (released when no
\* channel was made), the callbacks invoked, the connection and the channel
s_client_bootstrap_on_channel_setup(b, error_code, io) ==
    LET made == [state |-> "open", error_code |-> AWS_ERROR_SUCCESS]
        r == s_connection_new(FALSE, b.is_using_tls, io)
    IN  IF error_code # AWS_ERROR_SUCCESS
        THEN [http_bootstrap |-> NoBootstrap,
              calls |-> <<Callback("on_setup", NULL, error_code)>>,
              connection |-> NoConnection,
              channel |-> [state |-> "failed", error_code |-> error_code]]
        ELSE IF ~r.connection.exists
        THEN [http_bootstrap |-> b,
              calls |-> <<>>,
              connection |-> NoConnection,
              channel |-> aws_channel_shutdown(made, r.last_error)]
        ELSE [http_bootstrap |-> [b EXCEPT !.connection = Handle(ClientChannel),
                                           !.on_setup = NULL],
              calls |-> <<Callback("on_setup", Handle(ClientChannel), AWS_ERROR_SUCCESS)>>,
              connection |-> r.connection,
              channel |-> made]

\* error codes the channel bootstrap reports
ChannelErrors == {AWS_ERROR_SUCCESS, AWS_ERROR_HTTP_CONNECTION_CLOSED}

ClientChannelSetup(error_code, io) ==
    /\ channels[ClientChannel].state = "connecting"
    /\ LET r == s_client_bootstrap_on_channel_setup(http_bootstrap, error_code, io)
       IN  /\ http_bootstrap' = r.http_bootstrap
           /\ user_calls' = [user_calls EXCEPT ![ClientChannel] = @ \o r.calls]
           /\ http_connection' = [http_connection EXCEPT ![ClientChannel] = r.connection]
           /\ channels' = [channels EXCEPT ![ClientChannel] = r.channel]
    /\ UNCHANGED <<http_server, api_return, smvars, hpackvars, proxyvars>>

\* faulty variant: tells the user of the shutdown after a failed setup too
s_client_bootstrap_on_channel_shutdown_always(b, error_code) ==
    (IF b.on_setup # NULL
     THEN <<Callback("on_setup", NULL,
                     IF error_code = AWS_ERROR_SUCCESS THEN AWS_ERROR_UNKNOWN
                     ELSE error_code)>>
     ELSE <<>>)
    \o (IF b.on_shutdown # NULL
        THEN <<Callback("on_shutdown", b.connection, error_code)>>
        ELSE <<>>)

\* s_client_bootstrap_on_channel_shutdown: the callbacks invoked
s_client_bootstrap_on_channel_shutdown(b, error_code) ==
    IF b.on_setup # NULL
    THEN <<Callback("on_setup", NULL,
                    IF error_code = AWS_ERROR_SUCCESS THEN AWS_ERROR_UNKNOWN
                    ELSE error_code)>>
    ELSE IF b.on_shutdown # NULL
    THEN <<Callback("on_shutdown", b.connection, error_code)>>
    ELSE <<>>

ClientChannelShutdown ==
    /\ channels[ClientChannel].state = "shutting_down"
    /\ user_calls' =
           [user_calls EXCEPT ![ClientChannel] =
                @ \o s_client_bootstrap_on_channel_shutdown(
                         http_bootstrap, channels[ClientChannel].error_code)]
    /\ http_bootstrap' = NoBootstrap
    /\ channels' = [channels EXCEPT ![ClientChannel].state = "shut_down"]
    /\ UNCHANGED <<http_server, http_connection, api_return, smvars, hpackvars, proxyvars>>

\* what the user does with the connection inside on_incoming_connection:
\* nothing, or one call of aws_http_connection_configure_server
Reactions == {<<>>} \cup {<<options>> : options \in ServerConnectionOptions}

\* faulty variant: reports the failure although the user has the connection
s_accept_error_reports_again(user_cb_invoked, error_code) ==
    <<Callback("on_incoming_connection", NULL, error_code)>>

\* the error label of s_server_bootstrap_on_accept_channel_setup: the
\* callback it invokes
s_accept_error(user_cb_invoked, error_code) ==
    IF ~user_cb_invoked
    THEN <<Callback("on_incoming_connection", NULL, error_code)>>
    ELSE <<>>

\* s_server_bootstrap_on_accept_channel_setup for channel ch: the server,
\* the callbacks invoked, the connection and the channel
s_server_bootstrap_on_accept_channel_setup(server, ch, error_code, has_channel, io, put_ok, reaction) ==
    LET made == IF has_channel
                THEN [state |-> "open", error_code |-> AWS_ERROR_SUCCESS]
                ELSE [state |-> "failed", error_code |-> error_code]
        r == s_connection_new(TRUE, server.is_using_tls, io)
        stored == [server EXCEPT !.channel_to_connection_map = @ \cup {ch}]
        reported == <<Callback("on_incoming_connection", Handle(ch), error_code)>>
        reacted == IF reaction = <<>> THEN r.connection
                   ELSE aws_http_connection_configure_server(
                            r.connection, reaction[1]).connection
    IN  IF error_code # AWS_ERROR_SUCCESS
        THEN [http_server |-> server,
              calls |-> s_accept_error(FALSE, error_code),
              connection |-> NoConnection,
              channel |-> aws_channel_shutdown(made, error_code)]
        ELSE IF ~r.connection.exists
        THEN [http_server |-> server,
              calls |-> s_accept_error(FALSE, r.last_error),
              connection |-> NoConnection,
              channel |-> aws_channel_shutdown(made, r.last_error)]
        ELSE IF ~put_ok
        THEN [http_server |-> server,
              calls |-> s_accept_error(FALSE, AWS_ERROR_OOM),
              connection |-> r.connection,
              channel |-> aws_channel_shutdown(made, AWS_ERROR_OOM)]
        ELSE IF reacted.server_data[1].on_incoming_request = NULL
        THEN [http_server |-> stored,
              calls |-> reported
                        \o s_accept_error(TRUE, AWS_ERROR_HTTP_REACTION_REQUIRED),
              connection |-> reacted,
              channel |-> aws_channel_shutdown(made, AWS_ERROR_HTTP_REACTION_REQUIRED)]
        ELSE [http_server |-> stored,
              calls |-> reported,
              connection |-> reacted,
              channel |-> made]

ServerChannelSetup(ch, error_code, has_channel, io, put_ok, reaction) ==
    /\ channels[ch].state = "none"
    /\ error_code = AWS_ERROR_SUCCESS => has_channel
    /\ LET r == s_server_bootstrap_on_accept_channel_setup(
                    http_server, ch, error_code, has_channel, io, put_ok, reaction)
       IN  /\ http_server' = r.http_server
           /\ user_calls' = [user_calls EXCEPT ![ch] = @ \o r.calls]
           /\ http_connection' = [http_connection EXCEPT ![ch] = r.connection]
           /\ channels' = [channels EXCEPT ![ch] = r.channel]
    /\ UNCHANGED <<http_bootstrap, api_return, smvars, hpackvars, proxyvars>>

\* s_server_bootstrap_on_accept_channel_shutdown for channel ch with
\* connection c: the server and the callbacks invoked
s_server_bootstrap_on_accept_channel_shutdown(server, ch, error_code, c) ==
    LET was_present == ch \in server.channel_to_connection_map
    IN  [http_server |-> [server EXCEPT !.channel_to_connection_map = @ \ {ch}],
         calls |-> IF was_present /\ c.server_data[1].on_shutdown # NULL
                   THEN <<Callback("on_shutdown", Handle(ch), error_code)>>
                   ELSE <<>>]

ServerChannelShutdown(ch) ==
    /\ channels[ch].state = "shutting_down"
    /\ LET r == s_server_bootstrap_on_accept_channel_shutdown(
                    http_server, ch, channels[ch].error_code, http_connection[ch])
       IN  /\ http_server' = r.http_server
           /\ user_calls' = [user_calls EXCEPT ![ch] = @ \o r.calls]
    /\ channels' = [channels EXCEPT ![ch].state = "shut_down"]
    /\ UNCHANGED <<http_bootstrap, http_connection, api_return, smvars, hpackvars, proxyvars>>

\* aws_http_server_new with or without tls_options; no client connect yet
ConnInit ==
    /\ SMInit
    /\ TableIdle
    /\ CodecIdle
    /\ ProxyIdle
    /\ http_bootstrap = NoBootstrap
    /\ \E is_using_tls \in BOOLEAN :
           http_server = [is_using_tls |-> is_using_tls, channel_to_connection_map |-> {}]
    /\ channels = [ch \in Channels |-> NoChannel]
    /\ http_connection = [ch \in Channels |-> NoConnection]
    /\ user_calls = [ch \in Channels |-> <<>>]
    /\ api_return = NoReturn

ConnNext ==
    \/ \E options \in ClientOptions, outcome \in ConnectOutcomes :
           ClientConnect(options, outcome)
    \/ \E error_code \in ChannelErrors, io \in IoOutcomes :
           ClientChannelSetup(error_code, io)
    \/ ClientChannelShutdown
    \/ \E ch \in ServerChannels, error_code \in ChannelErrors, has_channel \in BOOLEAN,
          io \in IoOutcomes, put_ok \in BOOLEAN, reaction \in Reactions :
           ServerChannelSetup(ch, error_code, has_channel, io, put_ok, reaction)
    \/ \E ch \in ServerChannels : ServerChannelShutdown(ch)
    \/ \E c \in 0..MaxChannels, options \in ServerConnectionOptions : Configure(c, options)
    \/ \E ch \in Channels : aws_http_connection_release(ch)
    \/ \E ch \in Channels, error_code \in ChannelErrors : ChannelClosed(ch, error_code)

SpecConn == ConnInit /\ [][ConnNext]_vars


(* ------------------------------- claims ------------------------------- *)

\* records whose stream was opened and has not completed
OpenStreams == {r \in Records : rec[r].st = "open"}

\* C1: no user callback (on_acquired, on_complete, shutdown-complete) and no
\* downstream call (connection-manager acquire / release, channel task
\* scheduling) is made by a thread while that thread holds the manager's lock.
C1_NoCallUnderLock == calls_under_lock = {}

C1_Witness ==
    /\ {"acquire_connection", "on_acquired", "on_complete"} \subseteq calls_made
    /\ lock = {}

\* what happens without a further call of the user
Internal == (\E t \in Threads : ThreadStep(t)) \/ Callbacks

\* no thread inside a call can move and no callback is due: unless the user
\* makes another call, nothing will happen any more
AtRest == ~ENABLED Internal

\* the external count is zero, every stream has completed, every task has
\* run and every connection acquisition is resolved
Quiescent ==
    /\ ref_count = 0
    /\ cm_acquiring = 0
    /\ \A r \in Records : rec[r].st \notin {"scheduled", "open", "not_activated"}

\* C2: after the external refcount reaches zero, once all streams have
\* completed and all connection acquires have resolved, the shutdown-complete
\* callback fires, and it fires exactly once over the manager's lifetime:
\* never twice, and when the manager has come to rest it has fired.
C2_ShutdownCompleteExactlyOnce ==
    /\ shutdown_complete_calls <= 1
    /\ (Quiescent /\ AtRest) => shutdown_complete_calls = 1

InPending(r) == \E k \in 1..Len(pending_acquisitions) : pending_acquisitions[k] = r

\* C5: when the external refcount reaches zero every record still in the
\* pending list is removed from it and failed: its on_acquired callback is
\* invoked with a null stream and an error.  Stated of the manager at rest:
\* once ShuttingDown has done all it is going to do, every record that
\* acquire_stream put in the pending list has left it and was failed.
C5_PendingFailedOnShutdown ==
    (state = AWS_H2SMST_SHUTTING_DOWN /\ AtRest) =>
        \A r \in Records :
            (rec[r].st # "unused" /\ rec[r].sm_connection = NULL) =>
                /\ ~InPending(r)
                /\ rec[r].acquired_calls = 1
                /\ ~rec[r].acquired_stream
                /\ rec[r].acquired_error # AWS_ERROR_SUCCESS

\* C6: the last release always returns: the thread in the zero-refcount
\* handler can always take its next step, up to giving the lock back and
\* leaving the handler.
C6_LastReleaseReturns ==
    \A t \in Threads :
        (ref_count = 0 /\ pc[t] # "idle") => ENABLED ThreadStep(t)

\* C7: the state moves from Ready to ShuttingDown only with the external
\* refcount at zero, it has done so once the zero-refcount handler has run
\* as far as it gets, and once ShuttingDown it never returns to Ready.
C7_ReadyToShuttingDownOnce ==
    /\ [][/\ (state = AWS_H2SMST_SHUTTING_DOWN => state' = AWS_H2SMST_SHUTTING_DOWN)
          /\ (state = AWS_H2SMST_READY /\ state' = AWS_H2SMST_SHUTTING_DOWN
                  => ref_count = 0)]_vars
    /\ []((ref_count = 0 /\ AtRest) => state = AWS_H2SMST_SHUTTING_DOWN)

C7_Witness == state = AWS_H2SMST_SHUTTING_DOWN /\ ref_count = 0 /\ lock = {}

\* C8: for every acquisition on_acquired is invoked at most once; a failure
\* is reported with a null stream together with a non-zero error code (and a
\* success with a stream and error code 0).
C8_AcquiredOnce ==
    \A r \in Records :
        /\ rec[r].acquired_calls <= 1
        /\ rec[r].acquired_calls = 1 =>
              (rec[r].acquired_stream <=> rec[r].acquired_error = AWS_ERROR_SUCCESS)

C8_Witness ==
    \E r \in Records :
        /\ rec[r].acquired_calls = 1
        /\ ~rec[r].acquired_stream
        /\ rec[r].acquired_error # AWS_ERROR_SUCCESS

\* C9: no starvation: while the manager stays Ready and every connection
\* acquire resolves successfully, every record put in the pending list by
\* acquire_stream eventually gets its on_acquired callback.  Stated of the
\* manager at rest: with every connection acquire resolved successfully and
\* nothing left to run, no record is still waiting for its callback.
C9_NoStarvation ==
    (state = AWS_H2SMST_READY /\ ~cm_failed /\ AtRest) =>
        \A r \in Records :
            rec[r].st = "pending" => rec[r].acquired_calls > 0

RECURSIVE TableCost(_)
TableCost(tb) ==
    IF tb = <<>> THEN 0
    ELSE aws_hpack_get_header_size(Head(tb)) + TableCost(Tail(tb))

\* C10: after any sequence of insert and resize operations the sum of the
\* costs (name length + value length + 32) of the stored entries is at most
\* max_size.
C10_TableCostBounded ==
    /\ TableCost(table) <= max_size
    /\ table_size = TableCost(table)

\* a table with several entries in which no further header fits
C10_Witness ==
    /\ Len(table) >= 2
    /\ max_size - TableCost(table) < HeaderOverhead

\* the number of newest entries of tb that fit in n octets together
NewestFitting(tb, n) ==
    CHOOSE k \in 0..Len(tb) :
        /\ TableCost(SubSeq(tb, 1, k)) <= n
        /\ \A j \in (k + 1)..Len(tb) : TableCost(SubSeq(tb, 1, j)) > n

\* C17: after dynamic_table_resize(N) the max size is N, the total cost is
\* at most N, and the table holds exactly the longest run of its newest
\* entries that fits in N, in unchanged order.
C17_ResizeKeepsNewestFitting ==
    /\ [](table_op.op = "resize" =>
               /\ max_size = table_op.arg
               /\ TableCost(table) <= table_op.arg)
    /\ [][Resize(max_size') =>
               table' = SubSeq(table, 1, NewestFitting(table, max_size'))]_vars

\* a resize has evicted some entries and kept others
C17_Witness ==
    /\ table_op.op = "resize"
    /\ table_op.evicted > 0
    /\ table # <<>>

\* the header fields among the results decoded since the block was sent
DecodedFields ==
    SelectSeq(decoded, LAMBDA r : r.type = AWS_HPACK_DECODE_T_HEADER_FIELD)

\* C11: whatever the Huffman mode and the compression hints, a decoder that
\* has seen the same history decodes the output of encode_header_block(H)
\* without error into exactly H, in order, and a header sent with hint
\* NoCacheNoIndex is decoded with hint NoCacheNoIndex.
C11_RoundTrip ==
    /\ decode_error = NoError
    /\ wire = <<>> =>
           /\ Len(DecodedFields) = Len(sent)
           /\ \A i \in 1..Len(sent) :
                  /\ i <= Len(DecodedFields)
                  /\ DecodedFields[i].header_field.header = sent[i].header
                  /\ sent[i].compression = AWS_HTTP_HEADER_COMPRESSION_NO_FORWARD_CACHE
                         => DecodedFields[i].header_field.compression
                                = AWS_HTTP_HEADER_COMPRESSION_NO_FORWARD_CACHE

\* what the decoder makes of a cursor cut in two, against the cursor whole
CutAgrees(cursor, j) ==
    LET whole == aws_hpack_decode(decoder, cursor, 0)
        first == aws_hpack_decode(decoder, SubSeq(cursor, 1, j), 0)
        second == aws_hpack_decode(first.decoder, Rest(cursor, j), 0)
    IN  IF first.error = NoError /\ first.result.type = AWS_HPACK_DECODE_T_ONGOING
        THEN /\ first.consumed = j
             /\ second.result = whole.result
             /\ second.error = whole.error
             /\ second.decoder = whole.decoder
             /\ j + second.consumed = whole.consumed
        ELSE first = whole

\* C12: the decoder is resumable.  From every state the decoder reaches on
\* a valid stream, however the stream was sliced so far, feeding the next
\* octets in two slices (Ongoing after the first when the entry is not
\* complete) gives the same result, consumes the same octets and leaves the
\* same decoder and dynamic table as feeding them in one slice.
C12_DecodeResumable ==
    \A k \in 1..Len(wire) : \A j \in 1..(k - 1) :
        CutAgrees(SubSeq(wire, 1, k), j)

\* a call has returned Ongoing in the middle of an integer
C12_Witness ==
    /\ decoder.progress_integer.state = HPACK_INTEGER_STATE_VALUE
    /\ wire # <<>>

ResizeAccepted ==
    /\ Len(decoded') = Len(decoded) + 1
    /\ decoded'[Len(decoded')].type = AWS_HPACK_DECODE_T_DYNAMIC_TABLE_RESIZE

Last(seq) == seq[Len(seq)]
Range(seq) == {seq[i] : i \in DOMAIN seq}

\* the updates the claim expects for the values set since the last block
UpdatesByCount(called) ==
    IF called = <<>> THEN <<>>
    ELSE IF Len(called) = 1 THEN called
    ELSE <<Min(Range(called)), Last(called)>>

\* the smallest value set, then the last value set, as one update when the
\* two are equal
UpdatesByValue(called) ==
    IF called = <<>> THEN <<>>
    ELSE IF Min(Range(called)) = Last(called) THEN <<Last(called)>>
    ELSE <<Min(Range(called)), Last(called)>>

FirstIndex(tb, P(_)) ==
    LET S == {i \in 1..Len(tb) : P(tb[i])}
    IN  IF S = {} THEN 0 ELSE Min(S)

LookupsAgree(T) ==
    \A h \in WireHeaders :
        LET full == FirstIndex(T.table, LAMBDA e : e = h)
            name == FirstIndex(T.table, LAMBDA e : e.name = h.name)
            f == aws_hpack_dynamic_table_find_name_and_value(T, h)
            s == aws_hpack_static_table_find_name_and_value(h)
            x == aws_hpack_encoder_find_index(T, h)
        IN  /\ full # 0 => (f.has_value /\ f.index = full)
            /\ full = 0 => ~f.has_value
            /\ aws_hpack_dynamic_table_find_name_only(T, h.name) = name
            /\ (s # 0 \/ full # 0) =>
                   /\ x.found_value
                   /\ x.index = IF s # 0 THEN s
                                 ELSE full + aws_hpack_static_table_num_elements

\* C16: after every insert, eviction and resize a lookup by name and value
\* gives the smallest index of an entry with that name and value, a lookup
\* by name the smallest index of an entry with that name, and the
\* encoder's lookup reports a name and value match whenever there is one.
C16_LookupsSmallestIndex ==
    LookupsAgree(encoder.dynamic_table) /\ LookupsAgree(decoder.dynamic_table)

\* an entry was evicted while a newer entry with its name stayed
C16_Witness ==
    /\ Len(encoder.dynamic_table.table) = 1
    /\ encoder.dynamic_table.index_0 = 0
    /\ encoder.dynamic_table.max_size < InitialTableSize

\* positions of the calls of callback fn in calls
CallsOf(calls, fn) == {i \in 1..Len(calls) : calls[i].fn = fn}

\* C18: after an aws_http_client_connect that returned success on_setup is
\* invoked exactly once (not before the channel bootstrap answers, once from
\* then on); on_shutdown is invoked at most once and only after on_setup got
\* a connection and error code 0; a failed setup is reported with a NULL
\* connection and a non-zero error code.
C18_ClientCallbacks ==
    LET calls == user_calls[ClientChannel]
        setups == CallsOf(calls, "on_setup")
        shutdowns == CallsOf(calls, "on_shutdown")
        st == channels[ClientChannel].state
    IN  /\ setups \cup shutdowns = 1..Len(calls)
        /\ Cardinality(setups) <= 1
        /\ Cardinality(shutdowns) <= 1
        /\ st \in {"none", "connecting"} => calls = <<>>
        /\ st \in {"open", "failed", "shut_down"} => Cardinality(setups) = 1
        /\ \A i \in setups :
               \/ calls[i].connection = Handle(ClientChannel)
                    /\ calls[i].error_code = AWS_ERROR_SUCCESS
               \/ calls[i].connection = NULL
                    /\ calls[i].error_code # AWS_ERROR_SUCCESS
        /\ \A i \in shutdowns :
               /\ i = 2
               /\ calls[1].fn = "on_setup"
               /\ calls[1].connection = Handle(ClientChannel)
               /\ calls[1].error_code = AWS_ERROR_SUCCESS
               /\ calls[i].connection = Handle(ClientChannel)

\* the connection was set up and has shut down: both callbacks were invoked
C18_Witness ==
    /\ channels[ClientChannel].state = "shut_down"
    /\ Len(user_calls[ClientChannel]) = 2
    /\ user_calls[ClientChannel][2].fn = "on_shutdown"

\* the connection c has been configured
Configured(c) == c.server_data # <<>> /\ c.server_data[1].on_incoming_request # NULL

\* C19: a call of aws_http_connection_configure_server on a configured
\* connection, on a client connection or without on_incoming_request fails
\* with an error and leaves every connection as it was; a call that succeeds
\* configures a connection that was not configured; the callbacks and user
\* data of a configured connection never change again.
C19_ConfigureServerOnce ==
    /\ [][\A c \in 0..MaxChannels, options \in ServerConnectionOptions :
              Configure(c, options) =>
                  LET before == IF c = 0 THEN NoConnection ELSE http_connection[c]
                  IN  /\ (\/ Configured(before)
                          \/ before.server_data = <<>>
                          \/ options = <<>>
                          \/ options[1].on_incoming_request = NULL)
                         => /\ api_return'.result = AWS_OP_ERR
                            /\ api_return'.error # AWS_ERROR_SUCCESS
                            /\ http_connection' = http_connection
                      /\ api_return'.result = AWS_OP_SUCCESS
                         => /\ ~Configured(before)
                            /\ Configured(http_connection'[c])]_vars
    /\ [][\A ch \in Channels :
              Configured(http_connection[ch])
                  => http_connection'[ch].server_data = http_connection[ch].server_data]_vars

\* a second call on a configured server connection was refused
C19_Witness ==
    /\ api_return.fn = "aws_http_connection_configure_server"
    /\ api_return.result = AWS_OP_ERR
    /\ api_return.error = AWS_ERROR_INVALID_STATE
    /\ api_return.connection \in ServerChannels
    /\ Configured(http_connection[api_return.connection])

\* C20: for every accepted server channel on_incoming_connection is invoked
\* exactly once, first of all callbacks, with the connection and error code 0
\* or with NULL and a non-zero error code; a connection the user did not
\* configure inside that callback has its channel shut down; on_shutdown is
\* invoked only for a connection that was given to the user and configured.
C20_ServerCallbacks ==
    /\ [](\A ch \in ServerChannels :
            LET calls == user_calls[ch]
                incoming == CallsOf(calls, "on_incoming_connection")
            IN  /\ channels[ch].state = "none" => calls = <<>>
                /\ channels[ch].state # "none" => incoming = {1}
                /\ \A i \in incoming :
                       \/ calls[i].connection = Handle(ch)
                            /\ calls[i].error_code = AWS_ERROR_SUCCESS
                       \/ calls[i].connection = NULL
                            /\ calls[i].error_code # AWS_ERROR_SUCCESS
                /\ \A i \in CallsOf(calls, "on_shutdown") :
                       /\ calls[1].connection = Handle(ch)
                       /\ Configured(http_connection[ch])
                       /\ calls[i].connection = Handle(ch))
    /\ [][\A ch \in ServerChannels :
              (/\ channels[ch].state = "none"
               /\ Len(user_calls'[ch]) > 0
               /\ user_calls'[ch][1].connection # NULL
               /\ ~Configured(http_connection'[ch]))
                  => channels'[ch].state = "shutting_down"]_vars

\* a connection was given to the user, was not configured, and its channel
\* has shut down without on_shutdown
C20_Witness ==
    \E ch \in ServerChannels :
        /\ channels[ch].state = "shut_down"
        /\ Len(user_calls[ch]) = 1
        /\ user_calls[ch][1].connection = Handle(ch)
        /\ ~Configured(http_connection[ch])

(* ----------------------- stream manager, continued -------------------- *)

\* thread t leaves the critical section of acquire_stream in this step:
\* build_transaction has run in state Ready
BuiltInReady(t) ==
    /\ pc[t] = "acquire_stream_synced"
    /\ pc'[t] = "unlock"
    /\ state = AWS_H2SMST_READY

\* C21: whenever build_transaction runs in state Ready and leaves
\* pending_acquisition_count > 0, the number of new connections it asks for
\* is ceil(pending_acquisition_count / assume_max_concurrent_stream) minus
\* connections_acquiring, also when the count is an exact multiple of
\* assume_max_concurrent_stream.
C21_NewConnectionsCeiling ==
    [][\A t \in Threads :
          (BuiltInReady(t) /\ pending_acquisition_count' > 0) =>
              work'[t].new_connections =
                  ((pending_acquisition_count' + assume_max_concurrent_stream' - 1)
                       \div assume_max_concurrent_stream')
                  - connections_acquiring']_vars

\* acquire_connection calls a built transaction of threads 1..n still has to make
RECURSIVE ConnectionsToAcquire(_)
ConnectionsToAcquire(n) ==
    IF n = 0 THEN 0
    ELSE (work[n].new_connections - work[n].i) + ConnectionsToAcquire(n - 1)

\* C22: in every reachable state connections_acquiring equals the number of
\* acquire_connection requests issued to the connection manager, or committed
\* in a built transaction, whose connection-acquired callback has not yet run.
C22_ConnectionsAcquiringCounts ==
    connections_acquiring = cm_acquiring + ConnectionsToAcquire(NumThreads)

\* records whose on_acquired is invoked with a null stream and an error in this step
FailedInStep ==
    {r \in Records :
        /\ rec'[r].acquired_calls = rec[r].acquired_calls + 1
        /\ ~rec'[r].acquired_stream
        /\ rec'[r].acquired_error # AWS_ERROR_SUCCESS}

\* C23: when the connection-acquired callback arrives with a non-zero error
\* code while records are pending, exactly min(pending_acquisition_count,
\* connections_acquiring) pending records are failed through on_acquired and
\* the others stay pending.  The step is the one that delivers the first
\* failure; connections_acquiring is read as the requests outstanding when
\* the callback arrives.
C23_FailedAcquireFailsPending ==
    [][(~cm_failed /\ cm_failed' /\ pending_acquisition_count > 0) =>
          LET outstanding == cm_acquiring + ConnectionsToAcquire(NumThreads)
              n == IF pending_acquisition_count < outstanding
                   THEN pending_acquisition_count ELSE outstanding
          IN  /\ Cardinality(FailedInStep) = n
              /\ Len(pending_acquisitions') = Len(pending_acquisitions) - n]_vars

(* ---------------------- build_transaction on its own ------------------ *)

\* build_transaction as a function of the pending list.  The list is one
\* acquire_stream builds, records 1..n pushed to the back in the order of
\* their submission; each record has either no connection or one chosen for
\* it, the two cases Step 1 tells apart.  A thread is in a critical
\* section in state Ready, about to build its transaction.
BuildInit ==
    /\ \E n \in 0..MaxRecords, chosen \in [Records -> Connections \cup {NULL}] :
          /\ pending_acquisitions = [k \in 1..n |-> k]
          /\ pending_acquisition_count = n
          /\ next_record = n + 1
          /\ rec = [r \in Records |->
                       IF r <= n
                       THEN [s_new_pending_stream_acquisition(TRUE, TRUE)
                                EXCEPT !.sm_connection = chosen[r]]
                       ELSE NoRecord]
    /\ connection_manager = "CM"
    /\ ref_count = 1
    /\ lock = {1}
    /\ state = AWS_H2SMST_READY
    /\ connections_acquiring = 0
    /\ open_stream_count = 0
    /\ assume_max_concurrent_stream = UINT32_MAX
    /\ pc = [t \in Threads |-> IF t = 1 THEN "build" ELSE "idle"]
    /\ work = [t \in Threads |-> s_aws_stream_management_transaction_init]
    /\ num_streams_open = [c \in Connections |-> 0]
    /\ cm_state = "ready"
    /\ cm_acquiring = 0
    /\ cm_failed = FALSE
    /\ destroyed = FALSE
    /\ shutdown_complete_calls = 0
    /\ calls_made = {}
    /\ calls_under_lock = {}
    /\ TableIdle /\ CodecIdle /\ ConnIdle /\ ProxyIdle

\* s_aws_http2_stream_manager_build_transaction_synced(&work) under the lock
build_transaction(t) ==
    /\ pc[t] = "build"
    /\ LET b == s_aws_http2_stream_manager_build_transaction_synced(
                    state, rec, pending_acquisitions,
                    pending_acquisition_count, connections_acquiring,
                    open_stream_count, assume_max_concurrent_stream, work[t])
       IN  BuildApplied(t, b, rec)
    /\ NoCall
    /\ UNCHANGED <<ref_count, lock, state, connections_acquiring, open_stream_count,
                   assume_max_concurrent_stream, next_record, num_streams_open,
                   cmvars, endvars, hpackvars, connvars, proxyvars>>

\* the transaction is built, the lock released, the transaction executed;
\* the channel runs the tasks and HTTP completes the streams
BuildNext ==
    \/ \E t \in Threads : build_transaction(t)
    \/ \E t \in Threads : UnlockStep(t)
    \/ \E t \in Threads : execute_release_and_schedule(t)
    \/ \E t \in Threads, immediate_failure \in BOOLEAN :
           execute_acquire_connection(t, immediate_failure)
    \/ \E t \in Threads : execute_destroy(t, FALSE)
    \/ \E error_code \in {AWS_ERROR_SUCCESS, AWS_ERROR_HTTP_CONNECTION_CLOSED} :
           ConnectionAcquired(IF error_code = AWS_ERROR_SUCCESS THEN "conn1" ELSE NULL,
                              error_code)
    \/ \E r \in Records, status \in TaskStatuses, made, activated \in BOOLEAN,
          last_error \in LastErrors :
           MakeRequestTask(r, status, made, activated, last_error)
    \/ \E r \in Records : s_on_stream_complete(r)

SpecBuild == BuildInit /\ [][BuildNext]_vars

Activated(r) == \E k \in 1..Len(rec[r].events) : rec[r].events[k] = "activate"

\* the make-request task of record r ended on its error label: the task was
\* cancelled or aws_http_connection_make_request returned no stream
TaskFailed(r) ==
    rec[r].sm_connection # NULL /\ rec[r].st = "destroyed" /\ ~Activated(r)

\* C27: in the make-request task, when request creation succeeds on_acquired
\* is invoked with the new stream and error 0 before activation of the stream
\* is attempted; when the task is cancelled or request creation fails,
\* on_acquired is invoked with a null stream and the error, the record is
\* destroyed and no on_complete is ever delivered for that acquisition.
C27_MakeRequestTask ==
    \A r \in Records :
        /\ (Activated(r) /\ rec[r].callback) =>
              /\ SubSeq(rec[r].events, 1, 2) = <<"on_acquired", "activate">>
              /\ rec[r].acquired_calls = 1
              /\ rec[r].acquired_stream
              /\ rec[r].acquired_error = AWS_ERROR_SUCCESS
        /\ TaskFailed(r) =>
              /\ rec[r].callback =>
                    /\ rec[r].events = <<"on_acquired">>
                    /\ ~rec[r].acquired_stream
                    /\ rec[r].acquired_error # AWS_ERROR_SUCCESS
              /\ rec[r].destroy_calls = 1
              /\ rec[r].complete_calls = 0

C27_Witness ==
    \E r \in Records :
        /\ rec[r].callback
        /\ rec[r].events = <<"on_acquired", "activate", "on_complete">>
        /\ rec[r].st = "destroyed"

C29_PendingCountIsLength ==
    lock = {} => pending_acquisition_count = Len(pending_acquisitions)

\* a record is linked in the pending list, a stream has completed and every
\* call has returned
C29_Witness ==
    /\ lock = {}
    /\ Len(pending_acquisitions) >= 1
    /\ \E r \in Records : rec[r].complete_calls = 1
    /\ \A t \in Threads : pc[t] = "idle"

\* how often record r is linked in list l
Links(l, r) == Cardinality({k \in 1..Len(l) : l[k] = r})

C32_NewConnectionsNoWrap ==
    /\ [](\A t \in Threads :
             /\ work[t].new_connections >= 0
             /\ work[t].i <= work[t].new_connections
             /\ work[t].new_connections
                    <= pending_acquisition_count \div assume_max_concurrent_stream + 1)
    /\ [][\A t \in Threads :
             (BuiltInReady(t) /\ pending_acquisition_count' > 0) =>
                 pending_acquisition_count' \div assume_max_concurrent_stream' + 1
                     >= connections_acquiring']_vars

\* a transaction has issued every acquire_connection call it was built with
C32_Witness ==
    \E t \in Threads :
        /\ pc[t] = "execute_acquire"
        /\ work[t].new_connections > 0
        /\ work[t].i = work[t].new_connections

(* ------------------------ aws_http2_stream_manager_new ---------------- *)

AWS_H2SMST_UNINITIALIZED == "AWS_H2SMST_UNINITIALIZED"

\* a struct aws_linked_list in memory aws_mem_calloc returned: head.next is
\* the null pointer (0), not the address of the tail
ZeroedList == <<0>>

\* aws_linked_list_empty: head.next == &tail
aws_linked_list_empty(list) == list = <<>>

\* the manager's memory as aws_mem_calloc returns it, before the constructor
\* has done anything else
NewInit ==
    /\ connection_manager = NULL
    /\ ref_count = 0
    /\ lock = {}
    /\ state = AWS_H2SMST_UNINITIALIZED
    /\ pending_acquisitions = ZeroedList
    /\ pending_acquisition_count = 0
    /\ connections_acquiring = 0
    /\ open_stream_count = 0
    /\ assume_max_concurrent_stream = 0
    /\ pc = [t \in Threads |-> "idle"]
    /\ work = [t \in Threads |-> s_aws_stream_management_transaction_init]
    /\ rec = [r \in Records |-> NoRecord]
    /\ next_record = 1
    /\ num_streams_open = [c \in Connections |-> 0]
    /\ cm_state = "none"
    /\ cm_acquiring = 0
    /\ cm_failed = FALSE
    /\ destroyed = FALSE
    /\ shutdown_complete_calls = 0
    /\ calls_made = {}
    /\ calls_under_lock = {}
    /\ TableIdle /\ CodecIdle /\ ConnIdle /\ ProxyIdle

\* The constructor; mutex_ok and cm_ok are the outcomes of aws_mutex_init and
\* of aws_http_connection_manager_new.  Either failure goes to on_error,
\* which runs s_stream_manager_destroy_final on the manager as it is then: no
\* connection manager, no shutdown-complete callback stored yet, the pending
\* list not yet initialised.  No handle reaches the user, whose reference
\* count stays 0 here.
aws_http2_stream_manager_new(mutex_ok, cm_ok) ==
    /\ state = AWS_H2SMST_UNINITIALIZED
    /\ ~destroyed
    /\ IF mutex_ok /\ cm_ok
       THEN /\ connection_manager' = "CM"
            /\ cm_state' = "ready"
            /\ ref_count' = 1
            /\ state' = AWS_H2SMST_READY
            /\ assume_max_concurrent_stream' = UINT32_MAX
            /\ pending_acquisitions' = <<>>
            /\ UNCHANGED destroyed
       ELSE /\ destroyed' = TRUE
            /\ UNCHANGED <<connection_manager, cm_state, ref_count, state,
                           assume_max_concurrent_stream, pending_acquisitions>>
    /\ NoCall
    /\ UNCHANGED <<lock, pending_acquisition_count, connections_acquiring,
                   open_stream_count, pc, work, recvars, cm_acquiring, cm_failed,
                   shutdown_complete_calls, hpackvars, connvars, proxyvars>>

NewNext ==
    \/ \E mutex_ok, cm_ok \in BOOLEAN : aws_http2_stream_manager_new(mutex_ok, cm_ok)
    \/ Next

SpecNew == NewInit /\ [][NewNext]_vars

\* C33: whenever the manager's final destruction runs, the connection
\* manager reference is cleared and the pending_acquisitions list is empty:
\* the two fatal assertions of the final-destroy step hold on every path
\* that reaches it.
C33_FinalDestroyAssertions ==
    [][(~destroyed /\ destroyed') =>
          /\ connection_manager' = NULL
          /\ aws_linked_list_empty(pending_acquisitions')]_vars

\* C34: inserting a header whose cost (name length + value length + 32) is
\* greater than max_size leaves the table empty, its total cost 0, and does
\* not store the new header.
C34_OversizeInsertEmptiesTable ==
    [][\A header \in Headers :
          (InsertHeader(header) /\ aws_hpack_get_header_size(header) > max_size) =>
              /\ table' = <<>>
              /\ table_size' = 0
              /\ TableCost(table') = 0]_vars

\* an insert has emptied a table that held entries and that has room for
\* smaller headers
C34_Witness ==
    /\ table_op.op = "insert"
    /\ table_op.evicted >= 2
    /\ table = <<>>
    /\ max_size > HeaderOverhead

\* C35: inserting a header whose cost is at most max_size evicts entries from
\* the oldest end only, and only as many as needed for the new total to fit,
\* then stores the header as the newest entry, at index 62 of the combined
\* index space, the index of every surviving entry going up by one.
C35_InsertEvictsOldestThenPrepends ==
    [][\A header \in Headers :
          (InsertHeader(header) /\ aws_hpack_get_header_size(header) <= max_size) =>
              LET kept == NewestFitting(table,
                              max_size - aws_hpack_get_header_size(header))
                  old == [table |-> table]
                  new == [table |-> table']
              IN  /\ Len(table') = kept + 1
                  /\ aws_hpack_decoder_get_header(new, 62) = header
                  /\ \A i \in 62..(61 + kept) :
                        aws_hpack_decoder_get_header(new, i + 1)
                            = aws_hpack_decoder_get_header(old, i)
                  /\ table_size' <= max_size]_vars

\* an insert has evicted the oldest entry and kept a newer one
C35_Witness ==
    /\ table_op.op = "insert"
    /\ table_op.evicted >= 1
    /\ Len(table) >= 2

(* ------------------- proxy_strategy.c: tunneling strategies ------------ *)

MaxChain == 3            \* sub-strategies in a chain
MaxTransforms == 3       \* connect-transform calls on one chain
MaxResponseHeaders == 2  \* headers in one incoming header block

AWS_PSCS_READY == "AWS_PSCS_READY"
AWS_PSCS_IN_PROGRESS == "AWS_PSCS_IN_PROGRESS"
AWS_PSCS_SUCCESS == "AWS_PSCS_SUCCESS"
AWS_PSCS_FAILURE == "AWS_PSCS_FAILURE"

AWS_ERROR_HTTP_PROXY_STRATEGY_FAILED_PREVIOUSLY == "AWS_ERROR_HTTP_PROXY_STRATEGY_FAILED_PREVIOUSLY"
AWS_ERROR_HTTP_PROXY_STRATEGY_NTLM_CHALLENGE_TOKEN_MISSING == "AWS_ERROR_HTTP_PROXY_STRATEGY_NTLM_CHALLENGE_TOKEN_MISSING"
AWS_ERROR_HTTP_PROXY_STRATEGY_TRANSFORM_FAILED == "AWS_ERROR_HTTP_PROXY_STRATEGY_TRANSFORM_FAILED"

AWS_HTTP_STATUS_CODE_200_OK == 200
AWS_HTTP_HEADER_BLOCK_MAIN == "AWS_HTTP_HEADER_BLOCK_MAIN"
AWS_HTTP_HEADER_BLOCK_INFORMATIONAL == "AWS_HTTP_HEADER_BLOCK_INFORMATIONAL"

\* the four tunneling strategies a chain can hold
StrategyKinds == {"basic_auth", "one_time_identity", "kerberos", "ntlm"}

\* a strategy as its create function leaves it
s_create_strategy(kind) ==
    [kind |-> kind, connect_state |-> AWS_PSCS_READY, challenge_token |-> NULL]

\* what the user's token callback and the header allocation do in one attempt:
\* the callback's return value, the error code it stores, and whether adding
\* the Proxy-Authorization header succeeds
Outcomes ==
    { [get_token |-> AWS_OP_SUCCESS, error_code |-> AWS_ERROR_SUCCESS, add_header |-> AWS_OP_SUCCESS],
      [get_token |-> AWS_OP_ERR, error_code |-> AWS_ERROR_SUCCESS, add_header |-> AWS_OP_SUCCESS],
      [get_token |-> AWS_OP_ERR, error_code |-> AWS_ERROR_INVALID_ARGUMENT, add_header |-> AWS_OP_SUCCESS],
      [get_token |-> AWS_OP_SUCCESS, error_code |-> AWS_ERROR_INVALID_ARGUMENT, add_header |-> AWS_OP_SUCCESS],
      [get_token |-> AWS_OP_SUCCESS, error_code |-> AWS_ERROR_SUCCESS, add_header |-> AWS_OP_ERR] }

\* aws_http_message_add_header with the Proxy-Authorization header of a scheme
add_proxy_authorization(message, scheme, token) ==
    Append(message, [name |-> "Proxy-Authorization", scheme |-> scheme, token |-> token])

\* the outcome of one sub-strategy's connect transform: its state afterwards,
\* the callback it invoked, with which error code and which message
Terminated(s, message, error_code) ==
    [strategy |-> s, callback |-> "termination", error_code |-> error_code, message |-> message]

Forwarded(s, message) ==
    [strategy |-> s, callback |-> "forward", error_code |-> AWS_ERROR_SUCCESS, message |-> message]

s_basic_auth_tunnel_add_header(s, message, o) ==
    IF s.connect_state # AWS_PSCS_READY
    THEN Terminated(s, message, AWS_ERROR_INVALID_STATE)
    ELSE LET t == [s EXCEPT !.connect_state = AWS_PSCS_IN_PROGRESS]
         IN  IF o.add_header # AWS_OP_SUCCESS
             THEN Terminated(t, message, AWS_ERROR_OOM)
             ELSE Forwarded(t, add_proxy_authorization(message, "Basic", <<"user", "password">>))

s_one_time_identity_connect_transform(s, message, o) ==
    IF s.connect_state # AWS_PSCS_READY
    THEN Terminated(s, message, AWS_ERROR_INVALID_STATE)
    ELSE Forwarded([s EXCEPT !.connect_state = AWS_PSCS_IN_PROGRESS], message)

\* the shared tail of the Kerberos and NTLM transforms, from the token
\* callback on: the state is already IN_PROGRESS
s_token_transform(t, message, o, scheme, token) ==
    IF o.get_token # AWS_OP_SUCCESS \/ o.error_code # AWS_ERROR_SUCCESS
    THEN Terminated(t, message, IF o.error_code = AWS_ERROR_SUCCESS THEN AWS_ERROR_UNKNOWN ELSE o.error_code)
    ELSE IF o.add_header # AWS_OP_SUCCESS
         THEN Terminated(t, message, AWS_ERROR_OOM)
         ELSE Forwarded(t, add_proxy_authorization(message, scheme, token))

\* a faulty variant: only a FAILURE state is refused
s_kerberos_tunnel_transform_connect_not_ready(s, message, o) ==
    IF s.connect_state = AWS_PSCS_FAILURE
    THEN Terminated(s, message, AWS_ERROR_HTTP_PROXY_STRATEGY_FAILED_PREVIOUSLY)
    ELSE s_token_transform([s EXCEPT !.connect_state = AWS_PSCS_IN_PROGRESS], message, o, "Negotiate", <<"kerberos_token">>)

s_kerberos_tunnel_transform_connect(s, message, o) ==
    IF s.connect_state = AWS_PSCS_FAILURE
    THEN Terminated(s, message, AWS_ERROR_HTTP_PROXY_STRATEGY_FAILED_PREVIOUSLY)
    ELSE IF s.connect_state # AWS_PSCS_READY
    THEN Terminated(s, message, AWS_ERROR_INVALID_STATE)
    ELSE s_token_transform([s EXCEPT !.connect_state = AWS_PSCS_IN_PROGRESS], message, o, "Negotiate", <<"kerberos_token">>)

s_ntlm_tunnel_transform_connect(s, message, o) ==
    IF s.connect_state = AWS_PSCS_FAILURE
    THEN Terminated(s, message, AWS_ERROR_HTTP_PROXY_STRATEGY_FAILED_PREVIOUSLY)
    ELSE IF s.connect_state # AWS_PSCS_READY
    THEN Terminated(s, message, AWS_ERROR_INVALID_STATE)
    ELSE IF s.challenge_token = NULL
    THEN Terminated(s, message, AWS_ERROR_HTTP_PROXY_STRATEGY_NTLM_CHALLENGE_TOKEN_MISSING)
    ELSE s_token_transform([s EXCEPT !.connect_state = AWS_PSCS_IN_PROGRESS], message, o, "NTLM", <<"answer", s.challenge_token>>)

\* vtable->connect_request_transform of a strategy
connect_request_transform(s, message, o) ==
    CASE s.kind = "basic_auth" -> s_basic_auth_tunnel_add_header(s, message, o)
      [] s.kind = "one_time_identity" -> s_one_time_identity_connect_transform(s, message, o)
      [] s.kind = "kerberos" -> s_kerberos_tunnel_transform_connect(s, message, o)
      [] s.kind = "ntlm" -> s_ntlm_tunnel_transform_connect(s, message, o)

\* s_basic_auth_on_connect_status, s_one_time_identity_on_connect_status,
\* s_kerberos_on_connect_status and s_ntlm_on_connect_status have the same body
\* a faulty variant: the status is applied in every state
on_connect_status_any_state(s, status_code) ==
    [s EXCEPT !.connect_state = IF status_code # AWS_HTTP_STATUS_CODE_200_OK THEN AWS_PSCS_FAILURE ELSE AWS_PSCS_SUCCESS]

on_connect_status(s, status_code) ==
    IF s.connect_state = AWS_PSCS_IN_PROGRESS
    THEN [s EXCEPT !.connect_state = IF status_code # AWS_HTTP_STATUS_CODE_200_OK THEN AWS_PSCS_FAILURE ELSE AWS_PSCS_SUCCESS]
    ELSE s

\* header names as they can arrive, and aws_byte_cursor_eq_ignore_case on them
ResponseHeaderNames == {"Proxy-Authenticate", "proxy-authenticate", "Server"}
ChallengeTokens == {"challenge1", "challenge2"}
ResponseHeaders == [name : ResponseHeaderNames, value : ChallengeTokens]

lower_case(name) ==
    CASE name = "Proxy-Authenticate" -> "proxy-authenticate"
      [] name = "proxy-authenticate" -> "proxy-authenticate"
      [] name = "Server" -> "server"

aws_byte_cursor_eq_ignore_case(a, b) == lower_case(a) = lower_case(b)

\* a faulty variant: the header block is not looked at
s_ntlm_on_incoming_header_adaptive_any_block(s, header_block, header_array) ==
    LET hits == {i \in DOMAIN header_array : aws_byte_cursor_eq_ignore_case("Proxy-Authenticate", header_array[i].name)}
        first == CHOOSE i \in hits : \A j \in hits : i <= j
    IN  IF s.connect_state = AWS_PSCS_READY /\ hits # {}
        THEN [s EXCEPT !.challenge_token = header_array[first].value]
        ELSE s

\* s_ntlm_on_incoming_header_adaptive: the first Proxy-Authenticate header of a
\* main block replaces the challenge token while the strategy is READY
s_ntlm_on_incoming_header_adaptive(s, header_block, header_array) ==
    LET hits == {i \in DOMAIN header_array : aws_byte_cursor_eq_ignore_case("Proxy-Authenticate", header_array[i].name)}
        first == CHOOSE i \in hits : \A j \in hits : i <= j
    IN  IF s.connect_state = AWS_PSCS_READY /\ header_block = AWS_HTTP_HEADER_BLOCK_MAIN /\ hits # {}
        THEN [s EXCEPT !.challenge_token = header_array[first].value]
        ELSE s

\* vtable->on_incoming_headers: only Kerberos and NTLM have one, and the
\* Kerberos one does nothing
on_incoming_headers(s, header_block, header_array) ==
    IF s.kind = "ntlm" THEN s_ntlm_on_incoming_header_adaptive(s, header_block, header_array) ELSE s

(* ---------------------- proxy_strategy.c: the chain --------------------- *)

\* one callback invocation: by = 0 is the chain's caller, by = i is the chain's
\* iteration callback invoked by sub-strategy i (1-based position in the list)
Event(by, callback, error_code, message) ==
    [by |-> by, callback |-> callback, error_code |-> error_code, message |-> message]

\* the chain during one transform call: c.events are the callbacks so far,
\* outs[i] is what sub-strategy i's token callback and allocation will do
\* when that sub-strategy gets that far
RECURSIVE s_chain_tunnel_try_next_strategy(_, _)

\* a faulty variant: passes over the strategy after the one that terminated
s_chain_tunnel_iteration_termination_callback_skips(c, outs) ==
    s_chain_tunnel_try_next_strategy([c EXCEPT !.current_strategy_transform_index = @ + 2], outs)

s_chain_tunnel_iteration_termination_callback(c, outs) ==
    s_chain_tunnel_try_next_strategy([c EXCEPT !.current_strategy_transform_index = @ + 1], outs)

s_chain_tunnel_iteration_forward_callback(c, outs) ==
    [c EXCEPT !.events = Append(@, Event(0, "forward", AWS_ERROR_SUCCESS, c.message))]

s_chain_tunnel_try_next_strategy(c, outs) ==
    LET index == c.current_strategy_transform_index
    IN  IF index >= Len(c.strategies)
        THEN [c EXCEPT !.events = Append(@, Event(0, "termination", AWS_ERROR_HTTP_PROXY_STRATEGY_TRANSFORM_FAILED, c.message))]
        ELSE LET r == connect_request_transform(c.strategies[index + 1], c.message, outs[index + 1])
                 d == [c EXCEPT !.strategies[index + 1] = r.strategy,
                                !.message = r.message,
                                !.events = Append(@, Event(index + 1, r.callback, r.error_code, r.message))]
             IN  IF r.callback = "forward"
                 THEN s_chain_tunnel_iteration_forward_callback(d, outs)
                 ELSE s_chain_tunnel_iteration_termination_callback(d, outs)

s_chain_tunnel_transform_connect(c, outs) ==
    s_chain_tunnel_try_next_strategy([c EXCEPT !.current_strategy_transform_index = 0], outs)

s_chain_on_incoming_headers(strats, header_block, header_array) ==
    [i \in DOMAIN strats |-> on_incoming_headers(strats[i], header_block, header_array)]

s_chain_on_connect_status(strats, status_code) ==
    [i \in DOMAIN strats |-> on_connect_status(strats[i], status_code)]

\* s_create_tunneling_chain_strategy: one sub-strategy per factory, in order
s_create_tunneling_chain_strategy(kinds) ==
    [i \in DOMAIN kinds |-> s_create_strategy(kinds[i])]

ChainKinds == UNION {[1..n -> StrategyKinds] : n \in 1..MaxChain}
\* 200 and 407 Proxy Authentication Required
StatusCodes == {AWS_HTTP_STATUS_CODE_200_OK, 407}
HeaderBlocks == {AWS_HTTP_HEADER_BLOCK_MAIN, AWS_HTTP_HEADER_BLOCK_INFORMATIONAL}
HeaderArrays == UNION {[1..n -> ResponseHeaders] : n \in 0..MaxResponseHeaders}

CreateChain(kinds) ==
    /\ strategies = <<>>
    /\ strategies' = s_create_tunneling_chain_strategy(kinds)
    /\ UNCHANGED <<current_strategy_transform_index, connect_message, callbacks, connect_request>>
    /\ UNCHANGED <<smvars, hpackvars, connvars>>

\* the proxy connection builds a CONNECT request and asks the chain to
\* transform it; the whole chain runs inside this one call
TransformConnect(outs) ==
    /\ strategies # <<>>
    /\ ~connect_request.pending
    /\ Len(callbacks) < MaxTransforms
    /\ LET c == [strategies |-> strategies,
                 current_strategy_transform_index |-> current_strategy_transform_index,
                 message |-> <<>>, events |-> <<>>]
           d == s_chain_tunnel_transform_connect(c, outs)
       IN  /\ strategies' = d.strategies
           /\ current_strategy_transform_index' = d.current_strategy_transform_index
           /\ connect_message' = d.message
           /\ callbacks' = Append(callbacks, d.events)
           /\ connect_request' = [pending |-> d.events[Len(d.events)].callback = "forward", status_code |-> 0]
    /\ UNCHANGED <<smvars, hpackvars, connvars>>

\* a header block of the response to the forwarded CONNECT request
IncomingHeaders(header_block, header_array) ==
    /\ connect_request.pending
    /\ strategies' = s_chain_on_incoming_headers(strategies, header_block, header_array)
    /\ UNCHANGED <<current_strategy_transform_index, connect_message, callbacks, connect_request>>
    /\ UNCHANGED <<smvars, hpackvars, connvars>>

\* the status of the response to the forwarded CONNECT request
ConnectStatus(status_code) ==
    /\ connect_request.pending
    /\ strategies' = s_chain_on_connect_status(strategies, status_code)
    /\ connect_request' = [pending |-> FALSE, status_code |-> status_code]
    /\ UNCHANGED <<current_strategy_transform_index, connect_message, callbacks>>
    /\ UNCHANGED <<smvars, hpackvars, connvars>>

ProxyNext ==
    \/ \E kinds \in ChainKinds : CreateChain(kinds)
    \/ \E outs \in [1..MaxChain -> Outcomes] : TransformConnect(outs)
    \/ \E header_block \in HeaderBlocks, header_array \in HeaderArrays : IncomingHeaders(header_block, header_array)
    \/ \E status_code \in StatusCodes : ConnectStatus(status_code)

SpecProxy == Init /\ [][ProxyNext]_vars

(* ------------------------- proxy strategies: claims --------------------- *)

\* the callbacks one transform call produced are well formed for a chain of n
\* sub-strategies: sub-strategies 1, 2, ... in list order, each but the last
\* one having terminated, then exactly one callback of the caller; a forward
\* right after the first sub-strategy that forwarded, with its message, or a
\* termination with the transform-failed error after all n have terminated
ChainCallOrdered(E, n) ==
    LET m == Len(E)
    IN  /\ m >= 1
        /\ \A i \in 1..(m - 1) : E[i].by = i
        /\ \A i \in 1..(m - 2) : E[i].callback = "termination"
        /\ E[m].by = 0
        /\ \/ /\ m >= 2
              /\ E[m - 1].callback = "forward"
              /\ E[m].callback = "forward"
              /\ E[m].message = E[m - 1].message
           \/ /\ m = n + 1
              /\ \A i \in 1..n : E[i].callback = "termination"
              /\ E[m].callback = "termination"
              /\ E[m].error_code = AWS_ERROR_HTTP_PROXY_STRATEGY_TRANSFORM_FAILED

\* C36: in every connect-transform call on a chain the sub-strategies are tried
\* in list order from the first one, the next only after the previous one
\* terminated; the caller's forward callback follows the first forward of a
\* sub-strategy at once, the caller's termination callback comes only after
\* every sub-strategy terminated, and the caller gets exactly one callback.
C36_ChainTriesInOrder ==
    \A k \in DOMAIN callbacks : ChainCallOrdered(callbacks[k], Len(strategies))

\* one call in which the second sub-strategy forwarded after the first one
\* terminated, and one call in which all sub-strategies terminated
C36_Witness ==
    /\ Len(strategies) >= 2
    /\ \E k \in DOMAIN callbacks :
          /\ Len(callbacks[k]) = 3
          /\ callbacks[k][1].callback = "termination"
          /\ callbacks[k][3] = Event(0, "forward", AWS_ERROR_SUCCESS, callbacks[k][2].message)
    /\ \E k \in DOMAIN callbacks :
          callbacks[k][Len(callbacks[k])].callback = "termination"

\* sub-strategy i invoked the forward callback in some transform call so far
HasForwarded(i) ==
    \E k \in DOMAIN callbacks : \E p \in DOMAIN callbacks[k] :
        callbacks[k][p].by = i /\ callbacks[k][p].callback = "forward"

\* the error a strategy that forwarded before reports on a later transform
RefusedWith(s) ==
    IF s.kind \in {"kerberos", "ntlm"} /\ s.connect_state = AWS_PSCS_FAILURE
    THEN AWS_ERROR_HTTP_PROXY_STRATEGY_FAILED_PREVIOUSLY
    ELSE AWS_ERROR_INVALID_STATE

\* C37: a strategy instance that has invoked the forward callback in one
\* connect-transform call invokes the termination callback in every later
\* call, with the invalid-state error (failed-previously for Kerberos and NTLM
\* in the FAILURE state), and leaves the message as it received it.
C37_ForwardsAtMostOnce ==
    [][callbacks' # callbacks =>
          LET E == callbacks'[Len(callbacks')]
          IN  \A p \in DOMAIN E :
                  (E[p].by # 0 /\ HasForwarded(E[p].by)) =>
                      /\ E[p].callback = "termination"
                      /\ E[p].error_code = RefusedWith(strategies[E[p].by])
                      /\ E[p].message = (IF p = 1 THEN <<>> ELSE E[p - 1].message)]_vars

\* a Kerberos or NTLM strategy forwarded in one call and refused a later one
\* with failed-previously, and some strategy refused one with invalid-state
C37_Witness ==
    /\ \E k1, k2 \in DOMAIN callbacks : \E p1 \in DOMAIN callbacks[k1], p2 \in DOMAIN callbacks[k2] :
          /\ k1 < k2
          /\ callbacks[k1][p1].by # 0
          /\ callbacks[k1][p1].by = callbacks[k2][p2].by
          /\ callbacks[k1][p1].callback = "forward"
          /\ callbacks[k2][p2].error_code = AWS_ERROR_HTTP_PROXY_STRATEGY_FAILED_PREVIOUSLY
    /\ \E k1, k2 \in DOMAIN callbacks : \E p1 \in DOMAIN callbacks[k1], p2 \in DOMAIN callbacks[k2] :
          /\ k1 < k2
          /\ callbacks[k1][p1].by # 0
          /\ callbacks[k1][p1].by = callbacks[k2][p2].by
          /\ callbacks[k1][p1].callback = "forward"
          /\ callbacks[k2][p2].error_code = AWS_ERROR_INVALID_STATE

\* this step is s_chain_on_connect_status
StatusStep == connect_request.pending /\ ~connect_request'.pending

\* C38: a strategy's connect_state leaves READY only for IN_PROGRESS and only in
\* a connect-transform, leaves IN_PROGRESS only when a status arrives, for
\* SUCCESS on 200 and FAILURE otherwise, and never leaves SUCCESS or FAILURE; a
\* status that arrives in READY, SUCCESS or FAILURE changes nothing.
C38_ConnectStateMovesForward ==
    [][strategies # <<>> =>
          \A i \in DOMAIN strategies :
              LET a == strategies[i].connect_state
                  b == strategies'[i].connect_state
                  reported == IF connect_request'.status_code = AWS_HTTP_STATUS_CODE_200_OK THEN AWS_PSCS_SUCCESS ELSE AWS_PSCS_FAILURE
              IN  /\ (a = AWS_PSCS_READY /\ b # a) => (b = AWS_PSCS_IN_PROGRESS /\ callbacks' # callbacks)
                  /\ (a = AWS_PSCS_IN_PROGRESS /\ b # a) => StatusStep
                  /\ (a = AWS_PSCS_IN_PROGRESS /\ StatusStep) => b = reported
                  /\ (a # AWS_PSCS_IN_PROGRESS /\ StatusStep) => b = a
                  /\ a \in {AWS_PSCS_SUCCESS, AWS_PSCS_FAILURE} => b = a]_vars

\* a 200 status has just been reported to a chain holding a strategy it moved
\* to SUCCESS, one that had failed before, and one still READY
C38_Witness ==
    /\ ~connect_request.pending
    /\ connect_request.status_code = AWS_HTTP_STATUS_CODE_200_OK
    /\ \E i, j, k \in DOMAIN strategies :
          /\ strategies[i].connect_state = AWS_PSCS_FAILURE
          /\ strategies[j].connect_state = AWS_PSCS_SUCCESS
          /\ strategies[k].connect_state = AWS_PSCS_READY

\* header_array[p] is the first header named Proxy-Authenticate, in any case
FirstProxyAuthenticate(header_array, p) ==
    /\ p \in DOMAIN header_array
    /\ lower_case(header_array[p].name) = "proxy-authenticate"
    /\ \A q \in 1..(p - 1) : lower_case(header_array[q].name) # "proxy-authenticate"

\* the event of sub-strategy i in the call E, if it was tried in it
TriedIn(E, i) == {p \in DOMAIN E : E[p].by = i}

\* C39: the challenge token of an NTLM strategy changes only when a main header
\* block with a Proxy-Authenticate header arrives while the strategy is READY,
\* and becomes the value of the first such header, whatever it was before; a
\* connect-transform of a READY strategy without a token terminates with the
\* challenge-token-missing error and leaves the strategy as it was.
C39_NtlmChallengeToken ==
    [][strategies # <<>> =>
          \A i \in DOMAIN strategies :
              strategies[i].kind = "ntlm" =>
                  /\ strategies'[i].challenge_token # strategies[i].challenge_token =>
                        /\ strategies[i].connect_state = AWS_PSCS_READY
                        /\ callbacks' = callbacks
                        /\ connect_request.pending /\ connect_request' = connect_request
                        /\ \A header_block \in HeaderBlocks, header_array \in HeaderArrays :
                              strategies' = s_chain_on_incoming_headers(strategies, header_block, header_array) =>
                                  /\ header_block = AWS_HTTP_HEADER_BLOCK_MAIN
                                  /\ \E p \in DOMAIN header_array :
                                        /\ FirstProxyAuthenticate(header_array, p)
                                        /\ strategies'[i].challenge_token = header_array[p].value
                  /\ (/\ callbacks' # callbacks
                      /\ strategies[i].connect_state = AWS_PSCS_READY
                      /\ strategies[i].challenge_token = NULL) =>
                        LET E == callbacks'[Len(callbacks')]
                        IN  \A p \in TriedIn(E, i) :
                                /\ E[p].callback = "termination"
                                /\ E[p].error_code = AWS_ERROR_HTTP_PROXY_STRATEGY_NTLM_CHALLENGE_TOKEN_MISSING
                                /\ strategies'[i] = strategies[i]]_vars

\* an NTLM strategy terminated one transform for want of a token and forwarded
\* a later one, with the answer to a challenge that had arrived in between
C39_Witness ==
    \E i \in DOMAIN strategies : \E k1, k2 \in DOMAIN callbacks :
        /\ strategies[i].kind = "ntlm"
        /\ k1 < k2
        /\ \E p \in TriedIn(callbacks[k1], i) : callbacks[k1][p].error_code = AWS_ERROR_HTTP_PROXY_STRATEGY_NTLM_CHALLENGE_TOKEN_MISSING
        /\ \E p \in TriedIn(callbacks[k2], i) :
              /\ callbacks[k2][p].callback = "forward"
              /\ callbacks[k2][p].message = <<[name |-> "Proxy-Authorization", scheme |-> "NTLM", token |-> <<"answer", strategies[i].challenge_token>>]>>

\* C40: in a chain a status moves a sub-strategy to SUCCESS only if that
\* sub-strategy invoked the forward callback in the transform call whose
\* request the status answers.
C40_SuccessOnlyForForwarder ==
    [][(strategies # <<>> /\ StatusStep) =>
          \A i \in DOMAIN strategies :
              (strategies'[i].connect_state = AWS_PSCS_SUCCESS /\ strategies[i].connect_state # AWS_PSCS_SUCCESS) =>
                  \E p \in TriedIn(callbacks[Len(callbacks)], i) : callbacks[Len(callbacks)][p].callback = "forward"]_vars

====
